---- MODULE Spec2Model ----
(***************************************************************************)
(* A model of the MemoryStore native addon (src/src/memorystore.cpp) and   *)
(* of the JavaScript wrapper that constructs it (src/index.js): the entry  *)
(* table with per-entry time-to-live, the mutable-key proxies, and the     *)
(* background cleanup thread.                                              *)
(*                                                                         *)
(* Time is the reading of std::chrono::steady_clock, counted in ticks; a   *)
(* maxAgeMs of n lasts n ticks.  JavaScript values are records             *)
(* [t |-> type, v |-> payload] so that values of different types can be    *)
(* compared.                                                               *)
(***************************************************************************)
EXTENDS Integers, Sequences, FiniteSets, TLC

\* ------------------------------------------------------------------ bounds

\* The clock is read at 0 .. MaxTime.
MaxTime == 3

\* createMutableKey is called at most MaxHandles times.
MaxHandles == 2

\* Where only the ids read the clock, it is read at 0 .. MaxIdTime.
MaxIdTime == 1

\* ---------------------------------------------------------- program constants

\* std::chrono::steady_clock::time_point::max(), the "never" deadline: the
\* largest time point the model's integers represent.
TimePointMax == 2147483647

\* The cleanup interval the constructor's initialiser list sets.
DefaultCleanupIntervalMs == 60000

\* -------------------------------------------------------- JavaScript values

JsUndefined == [t |-> "undefined", v |-> ""]

JsNull == [t |-> "null", v |-> ""]

JsString(s) == [t |-> "string", v |-> s]

\* A number, by its decimal text ("NaN" for NaN).
JsNumber(s) == [t |-> "number", v |-> s]

JsBoolean(b) == [t |-> "boolean", v |-> IF b THEN "true" ELSE "false"]

\* A function object (the toString / valueOf closures of the get trap).
JsFunction(name) == [t |-> "function", v |-> name]

\* A plain object, by the name of its reference.
JsObject(name) == [t |-> "object", v |-> name]

\* The Proxy object that createMutableKey returned for handle h.
JsProxy(h) == [t |-> "proxy", v |-> h]

IsString(x) == x.t = "string"

IsNumber(x) == x.t = "number"

IsBoolean(x) == x.t = "boolean"

\* Napi::Value::IsObject(): napi_object (plain objects, proxies) or
\* napi_function.
IsObject(x) == x.t \in {"object", "proxy", "function"}

\* The plain objects callers use: two distinct references with equal content,
\* { id: "api" }, and neither carries a __keyId property.
PlainObjects == {"o1", "o2"}

\* Plain objects that carry a string __keyId and nothing else:
\* { __keyId: "key_0" }, the id of a mutable key made at clock reading 0, and
\* { __keyId: "x" }, an id that no createMutableKey returns.
IdObjects == {"k0", "kx"}

IdOf(name) == IF name = "k0" THEN "key_0" ELSE "x"

PlainHas(name, prop) ==
  IF name \in IdObjects THEN prop = "__keyId" ELSE prop = "id"

PlainGet(name, prop) ==
  IF name \in IdObjects
    THEN IF prop = "__keyId" THEN JsString(IdOf(name)) ELSE JsUndefined
    ELSE IF prop = "id" THEN JsString("api") ELSE JsUndefined

PlainJson(name) ==
  IF name \in IdObjects THEN "{\"__keyId\":\"" \o IdOf(name) \o "\"}"
  ELSE "{\"id\":\"api\"}"

\* An object that refers to itself: JSON.stringify throws a TypeError on it.
CircularObjects == {"cyc"}

\* ------------------------------------------------------------------- state

VARIABLES
  clock,              \* the reading steady_clock::now() gives
  store,              \* std::unordered_map<std::string, StoreItem> store
  keyWrappers,        \* std::unordered_map<std::string, shared_ptr<KeyWrapper>>
  handles,            \* the target objects of the proxies createMutableKey made
  storeMutex,         \* std::mutex storeMutex: "free" or the thread holding it
  stopCleanup,        \* std::atomic<bool> stopCleanup
  cleanupIntervalMs,  \* uint64_t cleanupIntervalMs
  worker,             \* std::thread cleanupThread, where its loop is, its locals
  pc,                 \* where each foreground thread is inside a call
  item,               \* the StoreItem a thread built in Set and has not inserted
  locals,             \* the now and the count a thread holds inside getKeys, all
  ret                 \* what the step just taken returned, or the pass erased

vars == <<clock, store, keyWrappers, handles, storeMutex, stopCleanup,
          cleanupIntervalMs, worker, pc, item, locals, ret>>

\* The foreground threads that call into the store.
Threads == {"t1", "t2"}

\* The names of the proxies, in the order createMutableKey returns them.
HandleName(i) == "h" \o ToString(i)

\* ----------------------------------------------------- mutable-key proxies

\* The proxy's get trap: toString and valueOf answer a closure, every other
\* property, "__keyId" included, answers the target's value.
getFunction(h, prop) ==
  IF prop = "toString" THEN JsFunction("toString")
  ELSE IF prop = "valueOf" THEN JsFunction("valueOf")
  ELSE handles[h].value

\* obj.Has(prop): a proxy has no has trap, so the target answers, and the
\* target owns "value" and "__keyId".
ObjHas(obj, prop) ==
  IF obj.t = "proxy" THEN prop \in {"value", "__keyId"}
  ELSE PlainHas(obj.v, prop)

\* obj.Get(prop): a proxy runs its get trap.
ObjGet(obj, prop) ==
  IF obj.t = "proxy" THEN getFunction(obj.v, prop)
  ELSE PlainGet(obj.v, prop)

\* JSON.stringify of a value that is a member of an object: the text, or ""
\* when the member is left out (undefined, a function).
JsonMember(name, x) ==
  IF x.t = "string" THEN "\"" \o name \o "\":\"" \o x.v \o "\""
  ELSE IF x.t = "number" THEN
    "\"" \o name \o "\":" \o (IF x.v = "NaN" THEN "null" ELSE x.v)
  ELSE IF x.t = "boolean" THEN "\"" \o name \o "\":" \o x.v
  ELSE IF x.t = "null" THEN "\"" \o name \o "\":null"
  ELSE IF x.t = "object" THEN "\"" \o name \o "\":" \o PlainJson(x.v)
  ELSE ""

\* JSON.stringify(value) for an object: a proxy lists its target's own keys,
\* "value" and "__keyId", and reads each through the get trap.
JsonStringify(x) ==
  IF x.t = "proxy" THEN
    LET a == JsonMember("value", getFunction(x.v, "value"))
        b == JsonMember("__keyId", getFunction(x.v, "__keyId"))
    IN  "{" \o a \o (IF a # "" /\ b # "" THEN "," ELSE "") \o b \o "}"
  ELSE PlainJson(x.v)

\* JSON.stringify(x) throws: x is circular, or a proxy whose value is.
JsonThrows(x) ==
  \/ x.t = "object" /\ x.v \in CircularObjects
  \/ /\ x.t = "proxy"
     /\ getFunction(x.v, "value").t = "object"
     /\ getFunction(x.v, "value").v \in CircularObjects

\* JSON.stringify(x) answers a string: x is an object that is no function
\* (a function gives undefined) and the call does not throw (a call that
\* throws leaves an empty result, which is no string).
JsonIsString(x) == x.t \in {"object", "proxy"} /\ ~JsonThrows(x)

\* std::to_string(double): "%f".
StdToString(x) == IF x.v = "NaN" THEN "nan" ELSE x.v \o ".000000"

\* A conversion that spells null and undefined as the strings "null" and
\* "undefined".
SafeGetStringSpells(value) ==
  IF value.t \in {"null", "undefined"} THEN value.t
  ELSE IF IsString(value) THEN value.v
  ELSE IF IsNumber(value) THEN StdToString(value)
  ELSE IF IsBoolean(value) THEN value.v
  ELSE IF IsObject(value) /\ ObjHas(value, "__keyId")
          /\ IsString(ObjGet(value, "__keyId"))
    THEN ObjGet(value, "__keyId").v
  ELSE IF JsonIsString(value) THEN JsonStringify(value)
  ELSE "[object Object]"

SafeGetString(value) ==
  IF value.t \in {"null", "undefined"} THEN ""
  ELSE IF IsString(value) THEN value.v
  ELSE IF IsNumber(value) THEN StdToString(value)
  ELSE IF IsBoolean(value) THEN value.v
  ELSE IF IsObject(value) /\ ObjHas(value, "__keyId")
          /\ IsString(ObjGet(value, "__keyId"))
    THEN ObjGet(value, "__keyId").v
  ELSE IF JsonIsString(value) THEN JsonStringify(value)
  ELSE "[object Object]"

\* The key's conversion reached JSON.stringify and it threw: the exception
\* stays pending, for the catch in SafeGetString catches C++ exceptions and
\* the addon is built with NAPI_DISABLE_CPP_EXCEPTIONS.
KeyThrows(keyValue) ==
  /\ keyValue.t \notin {"null", "undefined", "string", "number", "boolean"}
  /\ ~(IsObject(keyValue) /\ ObjHas(keyValue, "__keyId")
        /\ IsString(ObjGet(keyValue, "__keyId")))
  /\ JsonThrows(keyValue)

\* A key string taken from the target's own __keyId, past the get trap.
KeyStringById(keyValue) ==
  IF keyValue.t = "proxy" THEN handles[keyValue.v].keyId.v
  ELSE SafeGetString(keyValue)

\* The key string Get, Has and Delete compute from their key argument: the
\* __keyId the key object answers, when it answers a string.
KeyString(keyValue) ==
  IF IsObject(keyValue) /\ ~IsString(keyValue) THEN
    IF ObjHas(keyValue, "__keyId") /\ IsString(ObjGet(keyValue, "__keyId"))
      THEN ObjGet(keyValue, "__keyId").v
      ELSE SafeGetString(keyValue)
  ELSE SafeGetString(keyValue)

\* Whether Set takes the mutex to look the key's id up in keyWrappers.
SetLooksUp(keyValue) ==
  /\ IsObject(keyValue) /\ ~IsString(keyValue)
  /\ ObjHas(keyValue, "__keyId") /\ IsString(ObjGet(keyValue, "__keyId"))

\* A key string for Set taken from the target's own __keyId, past the get trap.
SetKeyStringById(keyValue) ==
  IF keyValue.t = "proxy" THEN handles[keyValue.v].keyId.v
  ELSE SafeGetString(keyValue)

\* The key string Set computes: as Get does, and the id is used whether or
\* not keyWrappers holds it.
SetKeyString(keyValue) ==
  IF IsObject(keyValue) /\ ~IsString(keyValue) THEN
    IF ObjHas(keyValue, "__keyId") /\ IsString(ObjGet(keyValue, "__keyId"))
      THEN IF ObjGet(keyValue, "__keyId").v \in DOMAIN keyWrappers
             THEN ObjGet(keyValue, "__keyId").v
             ELSE ObjGet(keyValue, "__keyId").v
      ELSE SafeGetString(keyValue)
  ELSE SafeGetString(keyValue)

\* ------------------------------------------------------------ entry table

\* A JavaScript number n = hi * 2^32 + lo given as maxAgeMs or as an interval.
JsAge(hi, lo) == [hi |-> hi, lo |-> lo]

\* A conversion that saturates: a number of 2^32 or more reads as an age that
\* outlasts every run.
Uint32ValueSaturates(n) == IF n.hi > 0 THEN 1000000 ELSE n.lo

\* Napi::Number::Uint32Value(): the number reduced modulo 2^32.
Uint32Value(n) == n.lo

\* The options argument of set: no third argument (or not an object), or an
\* object that may carry isPermanent and may carry maxAgeMs.
NoOptions ==
  [isObject |-> FALSE, hasPermanent |-> FALSE, isPermanent |-> TRUE,
   hasMaxAge |-> FALSE, maxAgeMs |-> JsAge(0, 0)]

\* { isPermanent: p, maxAgeMs: n }
Options(p, n) ==
  [isObject |-> TRUE, hasPermanent |-> TRUE, isPermanent |-> p,
   hasMaxAge |-> TRUE, maxAgeMs |-> n]

\* { maxAgeMs: n }
OptionsAge(n) ==
  [isObject |-> TRUE, hasPermanent |-> FALSE, isPermanent |-> TRUE,
   hasMaxAge |-> TRUE, maxAgeMs |-> n]

\* The isPermanent Set parses from its arguments (default true).
ParsePermanent(options) ==
  IF options.isObject /\ options.hasPermanent THEN options.isPermanent ELSE TRUE

\* The maxAgeMs Set parses from its arguments (default 0).
ParseMaxAge(options) ==
  IF options.isObject /\ options.hasMaxAge
    THEN Uint32Value(options.maxAgeMs) ELSE 0

\* A deadline counted from the age of every non-permanent item, an age of 0
\* included.
ExpiresAtFromAge(now, isPermanent, maxAgeMs) ==
  IF ~isPermanent THEN now + maxAgeMs ELSE TimePointMax

\* The deadline Set gives an item it builds at time now.
ExpiresAt(now, isPermanent, maxAgeMs) ==
  IF ~isPermanent /\ maxAgeMs > 0 THEN now + maxAgeMs ELSE TimePointMax

\* The StoreItem Set builds at time now.
StoreItem(now, keyValue, value, options) ==
  [value       |-> value,
   keyRef      |-> keyValue,
   isPermanent |-> ParsePermanent(options),
   maxAgeMs    |-> ParseMaxAge(options),
   expiresAt   |-> ExpiresAt(now, ParsePermanent(options), ParseMaxAge(options))]

\* The expiry test written with > : an entry is still served at its deadline.
IsExpiredLate(it, now) ==
  ~it.isPermanent /\ it.maxAgeMs > 0 /\ now > it.expiresAt

\* The test Get, Has and CleanupExpiredItems make before they erase.
IsExpired(it, now) ==
  ~it.isPermanent /\ it.maxAgeMs > 0 /\ now >= it.expiresAt

EmptyMap == [x \in {} |-> x]

\* store.erase(it)
Erase(map, key) == [k \in DOMAIN map \ {key} |-> map[k]]

\* insert_or_assign written as insert: an entry already present is kept.
InsertKeep(map, key, it) == IF key \in DOMAIN map THEN map ELSE (key :> it) @@ map

\* An assignment that gives an entry already present the new value and
\* flags and leaves its deadline as it was.
InsertKeepDeadline(map, key, it) ==
  IF key \in DOMAIN map
    THEN (key :> [it EXCEPT !.expiresAt = map[key].expiresAt]) @@ map
    ELSE (key :> it) @@ map

\* store.insert_or_assign(key, item)
InsertOrAssign(map, key, it) == (key :> it) @@ map

\* No call in progress returns a value at this step.
NoRet ==
  [op |-> "none", by |-> "", key |-> JsUndefined, val |-> JsUndefined,
   erased |-> FALSE]

\* Thread t's call op(keyValue) returns val.
Returns(t, op, keyValue, val) ==
  [op |-> op, by |-> t, key |-> keyValue, val |-> val, erased |-> FALSE]

\* Thread t's call op(keyValue) returns val, and erased an entry (a set:
\* released the entry it replaced) or did not.
ReturnsErased(t, op, keyValue, val, erased) ==
  [op |-> op, by |-> t, key |-> keyValue, val |-> val, erased |-> erased]

\* Napi::TypeError::New(env, message).ThrowAsJavaScriptException(), or a
\* TypeError JavaScript threw: what the caller receives is the exception.
TypeError(message) == [t |-> "error", v |-> message]

\* What the caller of a call with key keyValue receives when the call returns
\* val: the exception, if the key's conversion left one pending.
Completion(keyValue, val) ==
  IF KeyThrows(keyValue)
    THEN TypeError("Converting circular structure to JSON") ELSE val

\* A foreground thread that is not inside a call.
NoItem == [key |-> "", it |-> JsUndefined]

\* A foreground thread that is not inside an enumeration.
NoLocals == [now |-> 0, count |-> 0]

\* std::lock_guard<std::mutex> lock(storeMutex) of a foreground call: the call
\* blocks until the mutex is free, and its critical section is one step.
CanLock == storeMutex = "free"

Init ==
  /\ clock = 0
  /\ store = EmptyMap
  /\ keyWrappers = EmptyMap
  /\ handles = EmptyMap
  /\ storeMutex = "free"
  /\ stopCleanup = TRUE
  /\ cleanupIntervalMs = DefaultCleanupIntervalMs
  /\ worker = [pc |-> "none", now |-> 0, interval |-> 0, deadline |-> 0,
               notified |-> FALSE]
  /\ pc = [t \in Threads |-> "idle"]
  /\ item = [t \in Threads |-> NoItem]
  /\ locals = [t \in Threads |-> NoLocals]
  /\ ret = NoRet

\* Time passes.
Tick ==
  /\ clock < MaxTime
  /\ clock' = clock + 1
  /\ ret' = NoRet
  /\ UNCHANGED <<store, keyWrappers, handles, storeMutex, stopCleanup,
                 cleanupIntervalMs, worker, pc, item, locals>>

\* Set, up to the insertion: the key string (a key object whose __keyId reads
\* as a string is looked up in keyWrappers under the mutex), then the item
\* with its deadline counted from the clock as read now.
SetPrepare(t, keyValue, value, options) ==
  /\ pc[t] = "idle"
  /\ SetLooksUp(keyValue) => CanLock
  /\ item' = [item EXCEPT ![t] =
                [key |-> SetKeyString(keyValue),
                 it  |-> StoreItem(clock, keyValue, value, options)]]
  /\ pc' = [pc EXCEPT ![t] = "set_insert"]
  /\ ret' = NoRet
  /\ UNCHANGED <<clock, store, keyWrappers, handles, storeMutex, stopCleanup,
                 cleanupIntervalMs, worker, locals>>

\* An insertion that assigns the value to an entry already present and leaves
\* that entry's timing as it was.
SetInsertValueOnly(t) ==
  /\ pc[t] = "set_insert"
  /\ CanLock
  /\ store' = IF item[t].key \in DOMAIN store
                THEN [store EXCEPT ![item[t].key].value = item[t].it.value]
                ELSE InsertOrAssign(store, item[t].key, item[t].it)
  /\ pc' = [pc EXCEPT ![t] = "idle"]
  /\ item' = [item EXCEPT ![t] = NoItem]
  /\ ret' = ReturnsErased(t, "set", item[t].it.keyRef, JsBoolean(TRUE),
                          item[t].key \in DOMAIN store)
  /\ UNCHANGED <<clock, keyWrappers, handles, storeMutex, stopCleanup,
                 cleanupIntervalMs, worker, locals>>

\* Set, the insertion under the mutex, and the return.
SetInsert(t) ==
  /\ pc[t] = "set_insert"
  /\ CanLock
  /\ store' = InsertOrAssign(store, item[t].key, item[t].it)
  /\ pc' = [pc EXCEPT ![t] = "idle"]
  /\ item' = [item EXCEPT ![t] = NoItem]
  /\ ret' = ReturnsErased(t, "set", item[t].it.keyRef,
                          Completion(item[t].it.keyRef, JsBoolean(TRUE)),
                          item[t].key \in DOMAIN store)
  /\ UNCHANGED <<clock, keyWrappers, handles, storeMutex, stopCleanup,
                 cleanupIntervalMs, worker, locals>>

\* Set run from its first line to its return with no other thread's step in
\* between: the key string, the item, the insertion.
Set(t, keyValue, value, options) ==
  /\ pc[t] = "idle"
  /\ CanLock
  /\ store' = InsertOrAssign(store, SetKeyString(keyValue),
                             StoreItem(clock, keyValue, value, options))
  /\ ret' = ReturnsErased(t, "set", keyValue,
                          Completion(keyValue, JsBoolean(TRUE)),
                          SetKeyString(keyValue) \in DOMAIN store)
  /\ UNCHANGED <<clock, keyWrappers, handles, storeMutex, stopCleanup,
                 cleanupIntervalMs, worker, pc, item, locals>>

\* What Get answers for key string ks in table map at time now.
GetResult(map, ks, now) ==
  IF ks \in DOMAIN map /\ ~IsExpired(map[ks], now)
    THEN map[ks].value ELSE JsUndefined

\* A has that answers for presence alone.
HasResultPresent(map, ks, now) == JsBoolean(ks \in DOMAIN map)

\* What Has answers for key string ks in table map at time now.
HasResult(map, ks, now) ==
  IF ks \in DOMAIN map /\ ~IsExpired(map[ks], now)
    THEN JsBoolean(TRUE) ELSE JsBoolean(FALSE)

\* A lookup that counts the age of the entry it serves from now on.
AfterLookupRefreshes(map, ks, now) ==
  IF ks \in DOMAIN map /\ IsExpired(map[ks], now)
    THEN Erase(map, ks)
  ELSE IF ks \in DOMAIN map /\ ~map[ks].isPermanent /\ map[ks].maxAgeMs > 0
    THEN [map EXCEPT ![ks].expiresAt = now + map[ks].maxAgeMs]
  ELSE map

\* The table Get and Has leave: an expired entry they find is erased.
AfterLookup(map, ks, now) ==
  IF ks \in DOMAIN map /\ IsExpired(map[ks], now)
    THEN Erase(map, ks) ELSE map

Get(t, keyValue) ==
  /\ pc[t] = "idle"
  /\ CanLock
  /\ store' = AfterLookup(store, KeyString(keyValue), clock)
  /\ ret' = ReturnsErased(t, "get", keyValue,
                          Completion(keyValue,
                            GetResult(store, KeyString(keyValue), clock)),
                          store' # store)
  /\ UNCHANGED <<clock, keyWrappers, handles, storeMutex, stopCleanup,
                 cleanupIntervalMs, worker, pc, item, locals>>

Has(t, keyValue) ==
  /\ pc[t] = "idle"
  /\ CanLock
  /\ store' = AfterLookup(store, KeyString(keyValue), clock)
  /\ ret' = ReturnsErased(t, "has", keyValue,
                          Completion(keyValue,
                            HasResult(store, KeyString(keyValue), clock)),
                          store' # store)
  /\ UNCHANGED <<clock, keyWrappers, handles, storeMutex, stopCleanup,
                 cleanupIntervalMs, worker, pc, item, locals>>

\* A delete that tests expiry as Get does: it answers false for an entry
\* whose deadline has passed.
DeleteLive(t, keyValue) ==
  /\ pc[t] = "idle"
  /\ CanLock
  /\ store' = Erase(store, KeyString(keyValue))
  /\ ret' = ReturnsErased(t, "delete", keyValue,
                          HasResult(store, KeyString(keyValue), clock),
                          store' # store)
  /\ UNCHANGED <<clock, keyWrappers, handles, storeMutex, stopCleanup,
                 cleanupIntervalMs, worker, pc, item, locals>>

\* A delete that answers true whether it found an entry or not.
DeleteReportsTrue(t, keyValue) ==
  /\ pc[t] = "idle"
  /\ CanLock
  /\ store' = Erase(store, KeyString(keyValue))
  /\ ret' = ReturnsErased(t, "delete", keyValue, JsBoolean(TRUE),
                          store' # store)
  /\ UNCHANGED <<clock, keyWrappers, handles, storeMutex, stopCleanup,
                 cleanupIntervalMs, worker, pc, item, locals>>

\* Delete: the key string, then under the mutex find and erase; true if an
\* entry was there, expired or not.
Delete(t, keyValue) ==
  /\ pc[t] = "idle"
  /\ CanLock
  /\ store' = Erase(store, KeyString(keyValue))
  /\ ret' = ReturnsErased(t, "delete", keyValue,
                          Completion(keyValue,
                            JsBoolean(KeyString(keyValue) \in DOMAIN store)),
                          store' # store)
  /\ UNCHANGED <<clock, keyWrappers, handles, storeMutex, stopCleanup,
                 cleanupIntervalMs, worker, pc, item, locals>>

\* A clear that reports whether it removed anything.
ClearReportsChange(t) ==
  /\ pc[t] = "idle"
  /\ CanLock
  /\ store' = EmptyMap
  /\ ret' = ReturnsErased(t, "clear", JsUndefined, JsBoolean(store' # store),
                          store' # store)
  /\ UNCHANGED <<clock, keyWrappers, handles, storeMutex, stopCleanup,
                 cleanupIntervalMs, worker, pc, item, locals>>

\* A clear that empties the side table of the mutable keys with the entries.
ClearDropsHandles(t) ==
  /\ pc[t] = "idle"
  /\ CanLock
  /\ store' = EmptyMap
  /\ keyWrappers' = EmptyMap
  /\ ret' = ReturnsErased(t, "clear", JsUndefined, JsBoolean(TRUE),
                          store' # store)
  /\ UNCHANGED <<clock, handles, storeMutex, stopCleanup, cleanupIntervalMs,
                 worker, pc, item, locals>>

Clear(t) ==
  /\ pc[t] = "idle"
  /\ CanLock
  /\ store' = EmptyMap
  /\ ret' = ReturnsErased(t, "clear", JsUndefined, JsBoolean(TRUE),
                          store' # store)
  /\ UNCHANGED <<clock, keyWrappers, handles, storeMutex, stopCleanup,
                 cleanupIntervalMs, worker, pc, item, locals>>

\* A size that counts the entries whose deadline has not passed.
SizeLive(t) ==
  /\ pc[t] = "idle"
  /\ CanLock
  /\ ret' = Returns(t, "size", JsUndefined,
                    JsNumber(ToString(Cardinality(
                      {k \in DOMAIN store : ~IsExpired(store[k], clock)}))))
  /\ UNCHANGED <<clock, store, keyWrappers, handles, storeMutex, stopCleanup,
                 cleanupIntervalMs, worker, pc, item, locals>>

Size(t) ==
  /\ pc[t] = "idle"
  /\ CanLock
  /\ ret' = Returns(t, "size", JsUndefined,
                    JsNumber(ToString(Cardinality(DOMAIN store))))
  /\ UNCHANGED <<clock, store, keyWrappers, handles, storeMutex, stopCleanup,
                 cleanupIntervalMs, worker, pc, item, locals>>

\* Clear entered without the mutex.
ClearBeginUnlocked(t) ==
  /\ pc[t] = "idle"
  /\ pc' = [pc EXCEPT ![t] = "clear_erase"]
  /\ ret' = NoRet
  /\ UNCHANGED <<clock, store, keyWrappers, handles, storeMutex, stopCleanup,
                 cleanupIntervalMs, worker, item, locals>>

\* Clear, step by step: std::lock_guard<std::mutex> lock(storeMutex)
ClearBegin(t) ==
  /\ pc[t] = "idle"
  /\ CanLock
  /\ storeMutex' = t
  /\ pc' = [pc EXCEPT ![t] = "clear_erase"]
  /\ ret' = NoRet
  /\ UNCHANGED <<clock, store, keyWrappers, handles, stopCleanup,
                 cleanupIntervalMs, worker, item, locals>>

\* store.clear() destroys the entries one after another, in any order.
ClearErase(t) ==
  /\ pc[t] = "clear_erase"
  /\ \E k \in DOMAIN store : store' = Erase(store, k)
  /\ ret' = NoRet
  /\ UNCHANGED <<clock, keyWrappers, handles, storeMutex, stopCleanup,
                 cleanupIntervalMs, worker, pc, item, locals>>

\* store.clear() is done: return true, and the lock_guard releases the mutex
\* if this thread holds it.
ClearEnd(t) ==
  /\ pc[t] = "clear_erase"
  /\ store = EmptyMap
  /\ storeMutex' = IF storeMutex = t THEN "free" ELSE storeMutex
  /\ pc' = [pc EXCEPT ![t] = "idle"]
  /\ ret' = Returns(t, "clear", JsUndefined, JsBoolean(TRUE))
  /\ UNCHANGED <<clock, store, keyWrappers, handles, stopCleanup,
                 cleanupIntervalMs, worker, item, locals>>

\* ------------------------------------------------------ rejected calls

\* The numbers of arguments below the one or two a call requires.
TooFew(required) == 0..(required - 1)

\* A set that takes the arguments it was not given as undefined.
SetPadsArguments(t, n) == Set(t, JsUndefined, JsUndefined, NoOptions)

\* Set with n < 2 arguments: info.Length() < 2 throws and returns.
SetWrongArguments(t, n) ==
  /\ pc[t] = "idle"
  /\ n < 2
  /\ ret' = Returns(t, "set", JsUndefined, TypeError("Wrong number of arguments"))
  /\ UNCHANGED <<clock, store, keyWrappers, handles, storeMutex, stopCleanup,
                 cleanupIntervalMs, worker, pc, item, locals>>

\* Get with no argument: info.Length() < 1 throws and returns.
GetNoKey(t) ==
  /\ pc[t] = "idle"
  /\ ret' = Returns(t, "get", JsUndefined, TypeError("Key is required"))
  /\ UNCHANGED <<clock, store, keyWrappers, handles, storeMutex, stopCleanup,
                 cleanupIntervalMs, worker, pc, item, locals>>

\* Has with no argument.
HasNoKey(t) ==
  /\ pc[t] = "idle"
  /\ ret' = Returns(t, "has", JsUndefined, TypeError("Key is required"))
  /\ UNCHANGED <<clock, store, keyWrappers, handles, storeMutex, stopCleanup,
                 cleanupIntervalMs, worker, pc, item, locals>>

\* Delete with no argument.
DeleteNoKey(t) ==
  /\ pc[t] = "idle"
  /\ ret' = Returns(t, "delete", JsUndefined, TypeError("Key is required"))
  /\ UNCHANGED <<clock, store, keyWrappers, handles, storeMutex, stopCleanup,
                 cleanupIntervalMs, worker, pc, item, locals>>

\* CreateMutableKey with no argument: thrown before the id is made.
CreateMutableKeyNoValue(t) ==
  /\ pc[t] = "idle"
  /\ ret' = Returns(t, "createMutableKey", JsUndefined,
                    TypeError("Initial value required"))
  /\ UNCHANGED <<clock, store, keyWrappers, handles, storeMutex, stopCleanup,
                 cleanupIntervalMs, worker, pc, item, locals>>

\* ------------------------------------------------------------ enumeration

\* The test Keys, GetKeys and All make of an entry they list.
NotExpired(it, now) == it.isPermanent \/ it.maxAgeMs = 0 \/ now < it.expiresAt

\* for (const auto& pair : store): the table's iteration order, which is some
\* order of its keys and the same order while the table is the same.
TableOrder(map) ==
  CHOOSE q \in [1..Cardinality(DOMAIN map) -> DOMAIN map] :
    \A i, j \in 1..Cardinality(DOMAIN map) : i # j => q[i] # q[j]

\* The keys of the entries a scan at time now lists, in iteration order.
ValidKeys(map, now) ==
  SelectSeq(TableOrder(map), LAMBDA k : NotExpired(map[k], now))

\* A position of an array that was never set.
JsHole == [t |-> "hole", v |-> ""]

\* A JavaScript array with the elements elems.
JsArray(elems) == [t |-> "array", v |-> elems]

\* Napi::Array::New(env, n) followed by Set(index++, ...) for each of elems:
\* positions never set stay empty, a Set past the length extends the array.
FilledArray(n, elems) ==
  JsArray([i \in 1..(IF n > Len(elems) THEN n ELSE Len(elems)) |->
             IF i <= Len(elems) THEN elems[i] ELSE JsHole])

\* Keys: auto now = steady_clock::now(), before the lock.
KeysNow(t) ==
  /\ pc[t] = "idle"
  /\ locals' = [locals EXCEPT ![t] = [now |-> clock, count |-> 0]]
  /\ pc' = [pc EXCEPT ![t] = "keys_scan"]
  /\ ret' = NoRet
  /\ UNCHANGED <<clock, store, keyWrappers, handles, storeMutex, stopCleanup,
                 cleanupIntervalMs, worker, item>>

\* A Keys whose scan erases the expired entries it passes over.
KeysScanEvicts(t) ==
  /\ pc[t] = "keys_scan"
  /\ CanLock
  /\ LET validKeys == ValidKeys(store, locals[t].now)
     IN  /\ ret' = Returns(t, "keys", JsUndefined,
                           FilledArray(Len(validKeys),
                                       [i \in 1..Len(validKeys) |->
                                          JsString(validKeys[i])]))
         /\ store' = [ks \in {validKeys[i] : i \in 1..Len(validKeys)} |->
                        store[ks]]
  /\ locals' = [locals EXCEPT ![t] = NoLocals]
  /\ pc' = [pc EXCEPT ![t] = "idle"]
  /\ UNCHANGED <<clock, keyWrappers, handles, storeMutex, stopCleanup,
                 cleanupIntervalMs, worker, item>>

\* Keys: the scan under the mutex into validKeys, and the array made of it.
KeysScan(t) ==
  /\ pc[t] = "keys_scan"
  /\ CanLock
  /\ LET validKeys == ValidKeys(store, locals[t].now)
     IN  ret' = Returns(t, "keys", JsUndefined,
                        FilledArray(Len(validKeys),
                                    [i \in 1..Len(validKeys) |->
                                       JsString(validKeys[i])]))
  /\ locals' = [locals EXCEPT ![t] = NoLocals]
  /\ pc' = [pc EXCEPT ![t] = "idle"]
  /\ UNCHANGED <<clock, store, keyWrappers, handles, storeMutex, stopCleanup,
                 cleanupIntervalMs, worker, item>>

\* GetKeys: auto now = steady_clock::now(), before the first lock.
GetKeysNow(t) ==
  /\ pc[t] = "idle"
  /\ locals' = [locals EXCEPT ![t] = [now |-> clock, count |-> 0]]
  /\ pc' = [pc EXCEPT ![t] = "getkeys_count"]
  /\ ret' = NoRet
  /\ UNCHANGED <<clock, store, keyWrappers, handles, storeMutex, stopCleanup,
                 cleanupIntervalMs, worker, item>>

\* GetKeys: the first critical section counts the entries to list.
GetKeysCount(t) ==
  /\ pc[t] = "getkeys_count"
  /\ CanLock
  /\ locals' = [locals EXCEPT ![t].count = Len(ValidKeys(store, locals[t].now))]
  /\ pc' = [pc EXCEPT ![t] = "getkeys_fill"]
  /\ ret' = NoRet
  /\ UNCHANGED <<clock, store, keyWrappers, handles, storeMutex, stopCleanup,
                 cleanupIntervalMs, worker, item>>

\* GetKeys: the array is made with the count, and the second critical
\* section sets the keyRef of each entry it lists, from position 0 on.
GetKeysFill(t) ==
  /\ pc[t] = "getkeys_fill"
  /\ CanLock
  /\ LET validKeys == ValidKeys(store, locals[t].now)
     IN  ret' = Returns(t, "getKeys", JsUndefined,
                        FilledArray(locals[t].count,
                                    [i \in 1..Len(validKeys) |->
                                       store[validKeys[i]].keyRef]))
  /\ locals' = [locals EXCEPT ![t] = NoLocals]
  /\ pc' = [pc EXCEPT ![t] = "idle"]
  /\ UNCHANGED <<clock, store, keyWrappers, handles, storeMutex, stopCleanup,
                 cleanupIntervalMs, worker, item>>

\* All: auto now = steady_clock::now(), before the first lock.
AllNow(t) ==
  /\ pc[t] = "idle"
  /\ locals' = [locals EXCEPT ![t] = [now |-> clock, count |-> 0]]
  /\ pc' = [pc EXCEPT ![t] = "all_count"]
  /\ ret' = NoRet
  /\ UNCHANGED <<clock, store, keyWrappers, handles, storeMutex, stopCleanup,
                 cleanupIntervalMs, worker, item>>

\* All: the first critical section counts the entries to list.
AllCount(t) ==
  /\ pc[t] = "all_count"
  /\ CanLock
  /\ locals' = [locals EXCEPT ![t].count = Len(ValidKeys(store, locals[t].now))]
  /\ pc' = [pc EXCEPT ![t] = "all_fill"]
  /\ ret' = NoRet
  /\ UNCHANGED <<clock, store, keyWrappers, handles, storeMutex, stopCleanup,
                 cleanupIntervalMs, worker, item>>

\* All: the array is made with the count, and the second critical section
\* sets the value of each entry it lists, from position 0 on.
AllFill(t) ==
  /\ pc[t] = "all_fill"
  /\ CanLock
  /\ LET validKeys == ValidKeys(store, locals[t].now)
     IN  ret' = Returns(t, "all", JsUndefined,
                        FilledArray(locals[t].count,
                                    [i \in 1..Len(validKeys) |->
                                       store[validKeys[i]].value]))
  /\ locals' = [locals EXCEPT ![t] = NoLocals]
  /\ pc' = [pc EXCEPT ![t] = "idle"]
  /\ UNCHANGED <<clock, store, keyWrappers, handles, storeMutex, stopCleanup,
                 cleanupIntervalMs, worker, item>>

\* ------------------------------------------------------------ mutable keys

\* "key_" + std::to_string(steady_clock::now().time_since_epoch().count())
UniqueId(now) == "key_" \o ToString(now)

\* createMutableKey(initialValue): the id is made from the clock reading, the
\* wrapper is stored under it, and the proxy's target holds the value and id.
CreateMutableKey(t, initialValue) ==
  /\ pc[t] = "idle"
  /\ Cardinality(DOMAIN handles) < MaxHandles
  /\ CanLock
  /\ LET h == HandleName(Cardinality(DOMAIN handles) + 1)
         uniqueId == UniqueId(clock)
     IN  /\ keyWrappers' =
              InsertOrAssign(keyWrappers, uniqueId,
                             [keyString |-> uniqueId, proxyRef |-> h])
         /\ handles' =
              InsertOrAssign(handles, h,
                             [value |-> initialValue, keyId |-> JsString(uniqueId)])
         /\ ret' = Returns(t, "createMutableKey", initialValue, JsProxy(h))
  /\ UNCHANGED <<clock, store, storeMutex, stopCleanup, cleanupIntervalMs,
                 worker, pc, item, locals>>

\* The proxy's set trap, run by  key.value = newValue : the target's value
\* is replaced; the wrapper's keyString and the entry table are not touched.
setFunction(t, h, newValue) ==
  /\ pc[t] = "idle"
  /\ h \in DOMAIN handles
  /\ handles' = [handles EXCEPT ![h].value = newValue]
  /\ ret' = Returns(t, "setValue", JsProxy(h), JsBoolean(TRUE))
  /\ UNCHANGED <<clock, store, keyWrappers, storeMutex, stopCleanup,
                 cleanupIntervalMs, worker, pc, item, locals>>

\* ---------------------------------------------------------- cleanup thread

\* cleanupThread.joinable()
Joinable == worker.pc # "none"

\* startCleanupTask(): with no numeric argument the interval is left alone.
NoInterval == [given |-> FALSE, ms |-> JsAge(0, 0)]

\* startCleanupTask(intervalMs)
Interval(n) == [given |-> TRUE, ms |-> n]

\* The interval StartCleanupTask leaves in cleanupIntervalMs: a numeric
\* argument is stored before the running check.
StartInterval(arg, old) == IF arg.given THEN Uint32Value(arg.ms) ELSE old

\* A start that launches a thread whether or not the task runs.
StartCleanupTaskUnguarded(t, arg) ==
  /\ pc[t] = "idle"
  /\ cleanupIntervalMs' = StartInterval(arg, cleanupIntervalMs)
  /\ stopCleanup' = FALSE
  /\ worker' = [pc |-> "loop", now |-> 0, interval |-> 0, deadline |-> 0,
                notified |-> FALSE]
  /\ storeMutex' = IF storeMutex = "worker" THEN "free" ELSE storeMutex
  /\ ret' = Returns(t, "startCleanupTask", arg, JsBoolean(TRUE))
  /\ UNCHANGED <<clock, store, keyWrappers, handles, pc, item, locals>>

\* A start that clears the flag and returns true without launching a thread.
StartCleanupTaskNoLaunch(t, arg) ==
  /\ pc[t] = "idle"
  /\ cleanupIntervalMs' = StartInterval(arg, cleanupIntervalMs)
  /\ IF ~stopCleanup
       THEN /\ ret' = Returns(t, "startCleanupTask", arg, JsBoolean(FALSE))
            /\ UNCHANGED stopCleanup
       ELSE /\ stopCleanup' = FALSE
            /\ ret' = Returns(t, "startCleanupTask", arg, JsBoolean(TRUE))
  /\ UNCHANGED <<clock, store, keyWrappers, handles, storeMutex, worker, pc,
                 item, locals>>

\* StartCleanupTask: store the interval; if the task runs, return false;
\* otherwise clear the flag, join a thread that is still joinable, and
\* launch CleanupWorker.
StartCleanupTask(t, arg) ==
  /\ pc[t] = "idle"
  /\ cleanupIntervalMs' = StartInterval(arg, cleanupIntervalMs)
  /\ IF ~stopCleanup
       THEN /\ ret' = Returns(t, "startCleanupTask", arg, JsBoolean(FALSE))
            /\ UNCHANGED <<stopCleanup, worker, pc>>
       ELSE /\ stopCleanup' = FALSE
            /\ IF Joinable /\ worker.pc # "exited"
                 THEN /\ pc' = [pc EXCEPT ![t] = "start_join"]
                      /\ ret' = NoRet
                      /\ UNCHANGED worker
                 ELSE /\ worker' = [pc |-> "loop", now |-> 0, interval |-> 0,
                                    deadline |-> 0, notified |-> FALSE]
                      /\ ret' = Returns(t, "startCleanupTask", arg,
                                        JsBoolean(TRUE))
                      /\ UNCHANGED pc
  /\ UNCHANGED <<clock, store, keyWrappers, handles, storeMutex, item, locals>>

\* StartCleanupTask blocked in cleanupThread.join(): when the old thread has
\* exited, the new one is launched.
StartJoin(t) ==
  /\ pc[t] = "start_join"
  /\ worker.pc = "exited"
  /\ worker' = [pc |-> "loop", now |-> 0, interval |-> 0, deadline |-> 0,
                notified |-> FALSE]
  /\ pc' = [pc EXCEPT ![t] = "idle"]
  /\ ret' = Returns(t, "startCleanupTask", JsUndefined, JsBoolean(TRUE))
  /\ UNCHANGED <<clock, store, keyWrappers, handles, storeMutex, stopCleanup,
                 cleanupIntervalMs, item, locals>>

\* StopCleanupTask: if the task is stopped, return false; otherwise set the
\* flag (the mutex is not taken).
StopCleanupTask(t) ==
  /\ pc[t] = "idle"
  /\ IF stopCleanup
       THEN /\ ret' = Returns(t, "stopCleanupTask", JsUndefined, JsBoolean(FALSE))
            /\ UNCHANGED <<stopCleanup, pc>>
       ELSE /\ stopCleanup' = TRUE
            /\ pc' = [pc EXCEPT ![t] = "stop_notify"]
            /\ ret' = NoRet
  /\ UNCHANGED <<clock, store, keyWrappers, handles, storeMutex,
                 cleanupIntervalMs, worker, item, locals>>

\* cleanupCV.notify_one(): a thread blocked in the wait is woken; when none
\* is blocked the notification is lost.
StopNotify(t) ==
  /\ pc[t] = "stop_notify"
  /\ worker' = IF worker.pc = "wait"
                 THEN [worker EXCEPT !.notified = TRUE] ELSE worker
  /\ pc' = [pc EXCEPT ![t] = "stop_join"]
  /\ ret' = NoRet
  /\ UNCHANGED <<clock, store, keyWrappers, handles, storeMutex, stopCleanup,
                 cleanupIntervalMs, item, locals>>

\* A stop that returns true without joining the cleanup thread.
StopJoinDetach(t) ==
  /\ pc[t] = "stop_join"
  /\ pc' = [pc EXCEPT ![t] = "idle"]
  /\ ret' = Returns(t, "stopCleanupTask", JsUndefined, JsBoolean(TRUE))
  /\ UNCHANGED <<clock, store, keyWrappers, handles, storeMutex, stopCleanup,
                 cleanupIntervalMs, worker, item, locals>>

\* if (cleanupThread.joinable()) cleanupThread.join(); return true
StopJoin(t) ==
  /\ pc[t] = "stop_join"
  /\ Joinable => worker.pc = "exited"
  /\ worker' = [worker EXCEPT !.pc = "none"]
  /\ pc' = [pc EXCEPT ![t] = "idle"]
  /\ ret' = Returns(t, "stopCleanupTask", JsUndefined, JsBoolean(TRUE))
  /\ UNCHANGED <<clock, store, keyWrappers, handles, storeMutex, stopCleanup,
                 cleanupIntervalMs, item, locals>>

\* A loop whose body waits one interval before its scan.
WorkerLoopWaitsFirst ==
  /\ worker.pc = "loop"
  /\ worker' = [worker EXCEPT !.pc = IF stopCleanup THEN "exited" ELSE "wlock"]
  /\ ret' = NoRet
  /\ UNCHANGED <<clock, store, keyWrappers, handles, storeMutex, stopCleanup,
                 cleanupIntervalMs, pc, item, locals>>

\* CleanupWorker: while (!stopCleanup)
WorkerLoop ==
  /\ worker.pc = "loop"
  /\ worker' = [worker EXCEPT !.pc = IF stopCleanup THEN "exited" ELSE "now"]
  /\ ret' = NoRet
  /\ UNCHANGED <<clock, store, keyWrappers, handles, storeMutex, stopCleanup,
                 cleanupIntervalMs, pc, item, locals>>

\* CleanupExpiredItems: auto now = steady_clock::now(), before the lock.
WorkerNow ==
  /\ worker.pc = "now"
  /\ worker' = [worker EXCEPT !.pc = "lock", !.now = clock]
  /\ ret' = NoRet
  /\ UNCHANGED <<clock, store, keyWrappers, handles, storeMutex, stopCleanup,
                 cleanupIntervalMs, pc, item, locals>>

\* A pass that starts its scan without taking the mutex.
WorkerLockNone ==
  /\ worker.pc = "lock"
  /\ worker' = [worker EXCEPT !.pc = "scan"]
  /\ ret' = NoRet
  /\ UNCHANGED <<clock, store, keyWrappers, handles, storeMutex, stopCleanup,
                 cleanupIntervalMs, pc, item, locals>>

\* CleanupExpiredItems: std::lock_guard<std::mutex> lock(storeMutex)
WorkerLock ==
  /\ worker.pc = "lock"
  /\ storeMutex = "free"
  /\ storeMutex' = "worker"
  /\ worker' = [worker EXCEPT !.pc = "scan"]
  /\ ret' = NoRet
  /\ UNCHANGED <<clock, store, keyWrappers, handles, stopCleanup,
                 cleanupIntervalMs, pc, item, locals>>

\* A scan that passes over the entries whose deadline is the time it read.
ScanExpiredLate(map, now) == {k \in DOMAIN map : IsExpiredLate(map[k], now)}

\* A scan that erases every non-permanent entry with a positive age, due or
\* not.
ScanAged(map, now) ==
  {k \in DOMAIN map : ~map[k].isPermanent /\ map[k].maxAgeMs > 0}

\* The entries the scan erases: those expired at the time the pass read.
ScanExpired(map, now) == {k \in DOMAIN map : IsExpired(map[k], now)}

\* CleanupExpiredItems: the loop over the table, one erase a step, in the
\* table's iteration order, which is any order.
WorkerErase ==
  /\ worker.pc = "scan"
  /\ \E k \in ScanExpired(store, worker.now) :
       /\ store' = Erase(store, k)
       /\ ret' = ReturnsErased("cleanup", "erase", JsString(k), JsUndefined, TRUE)
  /\ UNCHANGED <<clock, keyWrappers, handles, storeMutex, stopCleanup,
                 cleanupIntervalMs, worker, pc, item, locals>>

\* CleanupExpiredItems: the loop ends and the lock_guard releases the mutex.
WorkerUnlock ==
  /\ worker.pc = "scan"
  /\ ScanExpired(store, worker.now) = {}
  /\ storeMutex' = "free"
  /\ worker' = [worker EXCEPT !.pc = "wlock", !.now = 0]
  /\ ret' = NoRet
  /\ UNCHANGED <<clock, store, keyWrappers, handles, stopCleanup,
                 cleanupIntervalMs, pc, item, locals>>

\* CleanupWorker: std::unique_lock lock(storeMutex), and wait_for fixes its
\* deadline from cleanupIntervalMs as it is now.
WorkerWaitLock ==
  /\ worker.pc = "wlock"
  /\ storeMutex = "free"
  /\ storeMutex' = "worker"
  /\ worker' = [worker EXCEPT !.pc = "pred",
                              !.interval = cleanupIntervalMs,
                              !.deadline = clock + cleanupIntervalMs]
  /\ ret' = NoRet
  /\ UNCHANGED <<clock, store, keyWrappers, handles, stopCleanup,
                 cleanupIntervalMs, pc, item, locals>>

\* wait_for: the predicate, evaluated with the mutex held.  True ends the
\* wait (and the unique_lock releases the mutex); false goes on to block.
WorkerPred ==
  /\ worker.pc = "pred"
  /\ IF stopCleanup
       THEN /\ storeMutex' = "free"
            /\ worker' = [worker EXCEPT !.pc = "loop", !.interval = 0,
                                        !.deadline = 0]
       ELSE /\ worker' = [worker EXCEPT !.pc = "block"]
            /\ UNCHANGED storeMutex
  /\ ret' = NoRet
  /\ UNCHANGED <<clock, store, keyWrappers, handles, stopCleanup,
                 cleanupIntervalMs, pc, item, locals>>

\* A wait that blocks the thread with the mutex still held.
WorkerBlockKeeps ==
  /\ worker.pc = "block"
  /\ worker' = [worker EXCEPT !.pc = "wait", !.notified = FALSE]
  /\ ret' = NoRet
  /\ UNCHANGED <<clock, store, keyWrappers, handles, storeMutex, stopCleanup,
                 cleanupIntervalMs, pc, item, locals>>

\* wait_for: the condition variable releases the mutex and blocks the thread.
WorkerBlock ==
  /\ worker.pc = "block"
  /\ storeMutex' = "free"
  /\ worker' = [worker EXCEPT !.pc = "wait", !.notified = FALSE]
  /\ ret' = NoRet
  /\ UNCHANGED <<clock, store, keyWrappers, handles, stopCleanup,
                 cleanupIntervalMs, pc, item, locals>>

\* wait_for: the blocked thread wakes, notified or at its deadline, takes the
\* mutex again, and either returns (timed out, or the predicate holds) or
\* blocks again.
WorkerWake ==
  /\ worker.pc = "wait"
  /\ worker.notified \/ clock >= worker.deadline
  /\ storeMutex = "free"
  /\ worker' = IF clock >= worker.deadline \/ stopCleanup
                 THEN [worker EXCEPT !.pc = "loop", !.interval = 0,
                                     !.deadline = 0, !.notified = FALSE]
                 ELSE [worker EXCEPT !.notified = FALSE]
  /\ ret' = NoRet
  /\ UNCHANGED <<clock, store, keyWrappers, handles, storeMutex, stopCleanup,
                 cleanupIntervalMs, pc, item, locals>>

\* ------------------------------------------------------------ the callers

\* The keys, values and options the callers pass.
StringKeys == {JsString("a"), JsString("b")}

Values == {JsNumber("1"), JsNumber("2")}

SetOptions == {NoOptions, Options(FALSE, JsAge(0, 1))}

StartArgs == {NoInterval, Interval(JsAge(0, 1)), Interval(JsAge(0, 2))}

\* The calls of one thread on the entry table, with string keys.
DataCall(t) ==
  \/ \E k \in StringKeys, v \in Values, o \in SetOptions : SetPrepare(t, k, v, o)
  \/ SetInsert(t)
  \/ \E k \in StringKeys : Get(t, k)
  \/ \E k \in StringKeys : Has(t, k)
  \/ \E k \in StringKeys : Delete(t, k)
  \/ Clear(t)
  \/ Size(t)

\* The calls of one thread that start and stop the cleanup task.
TaskCall(t) ==
  \/ \E a \in StartArgs : StartCleanupTask(t, a)
  \/ StopCleanupTask(t)
  \/ StopNotify(t)
  \/ StopJoin(t)

\* The steps of the cleanup thread.
CleanupWorker ==
  \/ WorkerLoop
  \/ WorkerNow
  \/ WorkerLock
  \/ WorkerErase
  \/ WorkerUnlock
  \/ WorkerWaitLock
  \/ WorkerPred
  \/ WorkerBlock
  \/ WorkerWake

\* One JavaScript thread calling into the store, and the cleanup thread.
Next ==
  \/ Tick
  \/ DataCall("t1")
  \/ TaskCall("t1")
  \/ CleanupWorker

Spec == Init /\ [][Next]_vars

\* Two threads calling into the store at once, each writing its own value,
\* with entries that last one tick and two ticks; the cleanup task is never
\* started.
ConcValue(t) == IF t = "t1" THEN JsNumber("1") ELSE JsNumber("2")

ConcOptions ==
  {NoOptions, Options(FALSE, JsAge(0, 1)), Options(FALSE, JsAge(0, 2))}

ConcCall(t) ==
  \/ \E k \in StringKeys, o \in ConcOptions : SetPrepare(t, k, ConcValue(t), o)
  \/ SetInsert(t)
  \/ \E k \in StringKeys : Get(t, k)
  \/ \E k \in StringKeys : Has(t, k)
  \/ \E k \in StringKeys : Delete(t, k)
  \/ Clear(t)

NextConc ==
  \/ Tick
  \/ \E t \in Threads : ConcCall(t)

SpecConc == Init /\ [][NextConc]_vars

\* ------------------------------------------------ claims: concurrent callers

\* A string key passes through unchanged: its identity is its text.
StringIdentity(k) == k.v

\* The step just taken completed a set, delete or clear that touches id.
Touches(id) ==
  \/ ret'.op \in {"set", "delete"} /\ StringIdentity(ret'.key) = id
  \/ ret'.op = "clear"

\* A completed set leaves its value in the table under the key's identity.
RoundTripInsert ==
  ret'.op = "set" =>
    /\ StringIdentity(ret'.key) \in DOMAIN store'
    /\ store'[StringIdentity(ret'.key)].value = ConcValue(ret'.by)

\* An entry whose deadline has not elapsed stays as it is while no set,
\* delete or clear on its identity completes.
RoundTripFrame ==
  \A id \in DOMAIN store :
    (store[id].expiresAt > clock /\ ~Touches(id)) =>
      (id \in DOMAIN store' /\ store'[id] = store[id])

\* get and has, by any thread, on an entry whose deadline has not elapsed
\* answer its value and true.
RoundTripRead ==
  LET id == StringIdentity(ret'.key) IN
  (ret'.op \in {"get", "has"} /\ id \in DOMAIN store
     /\ store[id].expiresAt > clock) =>
    /\ ret'.op = "get" => ret'.val = store[id].value
    /\ ret'.op = "has" => ret'.val = JsBoolean(TRUE)

\* C1: once set(k, v) has completed, the table holds v under k's identity
\* and keeps it until the entry's deadline elapses or a set, delete or clear
\* on that identity completes; meanwhile get(k) returns v and has(k) returns
\* true, whichever thread asks.
C1_RoundTrip == [][RoundTripInsert /\ RoundTripFrame /\ RoundTripRead]_vars

\* C1 witness: thread t2 gets the value thread t1 set.
C1_Witness ==
  /\ ret.op = "get"
  /\ ret.by = "t2"
  /\ ret.val = ConcValue("t1")

\* The set call builds its item from the clock as it reads it: a request
\* { isPermanent: false, maxAgeMs: T } with T > 0 gets the deadline now + T.
ExpiryDeadline ==
  \A t \in Threads, k \in StringKeys, T \in 1 .. 2 :
    SetPrepare(t, k, ConcValue(t), Options(FALSE, JsAge(0, T))) =>
      /\ ~item'[t].it.isPermanent
      /\ item'[t].it.maxAgeMs = T
      /\ item'[t].it.expiresAt = clock + T

\* The insertion stores the item as the call built it.
ExpiryInsert ==
  ret'.op = "set" =>
    store'[StringIdentity(ret'.key)] = item[ret'.by].it

\* With the cleanup task stopped, get on an entry set with T > 0 answers the
\* value and changes nothing while less than T has passed since the set read
\* the clock, and answers undefined and erases the entry from then on.
ExpiryGet ==
  LET id == StringIdentity(ret'.key) IN
  (ret'.op = "get" /\ stopCleanup /\ worker.pc = "none" /\ id \in DOMAIN store
     /\ ~store[id].isPermanent /\ store[id].maxAgeMs > 0) =>
    LET T == store[id].maxAgeMs
        setTime == store[id].expiresAt - T
    IN  IF clock - setTime < T
          THEN ret'.val = store[id].value /\ store' = store
          ELSE /\ ret'.val = JsUndefined
               /\ id \notin DOMAIN store'
               /\ \A other \in DOMAIN store \ {id} :
                    other \in DOMAIN store' /\ store'[other] = store[other]

\* C2: after set(k, v, {isPermanent: false, maxAgeMs: T}) with T > 0 (T as
\* the unsigned 32-bit ttl the entry stores) and the cleanup task stopped,
\* get(k) returns v at every time earlier than T after the set read the
\* clock, returns undefined at every time T or later, and the first such get
\* erases the entry.
C2_LazyExpiry == [][ExpiryDeadline /\ ExpiryInsert /\ ExpiryGet]_vars

\* C2 witness: a get found an entry at or past its deadline, answered
\* undefined and erased it, with no cleanup task.
C2_Witness ==
  /\ ret.op = "get"
  /\ ret.erased
  /\ ret.val = JsUndefined
  /\ StringIdentity(ret.key) \notin DOMAIN store
  /\ stopCleanup
  /\ worker.pc = "none"

\* C5: when set calls on one identity run at once, the one that takes the
\* mutex last leaves exactly its own item (value, isPermanent, maxAgeMs and
\* deadline, all from that call) as the only entry of the identity, and
\* touches no other entry.
C5_LastWriterWins ==
  [][ret'.op = "set" =>
       LET t == ret'.by
           id == StringIdentity(ret'.key)
       IN  /\ item[t].it.value = ConcValue(t)
           /\ DOMAIN store' = DOMAIN store \cup {id}
           /\ store'[id] = item[t].it
           /\ \A other \in DOMAIN store \ {id} : store'[other] = store[other]]_vars

\* C5 witness: a set on an identity completes over an entry another thread
\* wrote with another value and another timing, while that thread is inside
\* a further set on the same identity.
C5_Witness ==
  /\ ret.op = "set"
  /\ ret.by = "t1"
  /\ pc["t2"] = "set_insert"
  /\ item["t2"].key = StringIdentity(ret.key)
  /\ item["t2"].it.isPermanent # store[StringIdentity(ret.key)].isPermanent

\* One thread that creates mutable keys, rebinds them and uses them, and
\* plain strings, as keys of permanent entries.
HandleValues == {JsString("a"), JsString("b"), JsObject("o1"), JsObject("o2")}

HandleKeys == {JsProxy(h) : h \in DOMAIN handles} \cup {JsString("b")}

HandleCall(t) ==
  \/ \E v \in HandleValues : CreateMutableKey(t, v)
  \/ \E h \in DOMAIN handles, v \in HandleValues : setFunction(t, h, v)
  \/ \E k \in HandleKeys, v \in Values : Set(t, k, v, NoOptions)
  \/ \E k \in HandleKeys : Get(t, k)
  \/ \E k \in HandleKeys : Has(t, k)
  \/ \E k \in HandleKeys : Delete(t, k)

\* The clock readings the ids are made from: 0 .. MaxIdTime.
TickIds == clock < MaxIdTime /\ Tick

NextHandles ==
  \/ TickIds
  \/ HandleCall("t1")

SpecHandles == Init /\ [][NextHandles]_vars

\* ------------------------------------------------ claims on mutable keys
\* These are checked under SpecHandles.

\* The entry under key string ks was stored through proxy h with value v.
StoredThrough(ks, h, v) ==
  /\ ks \in DOMAIN store
  /\ store[ks].keyRef = JsProxy(h)
  /\ store[ks].value = v

\* The table and the handle as P5 leaves them: set(h, 1) was made while h read
\* "a", h now reads "b", and set(h, 2) was made since.
Rebound(h) ==
  /\ h \in DOMAIN handles
  /\ handles[h].value = JsString("b")
  /\ StoredThrough("a", h, JsNumber("1"))
  /\ StoredThrough("b", h, JsNumber("2"))

\* C6: for a handle created with value "a", after set(h, 1), the change of
\* h's value to "b" and set(h, 2), a get(h) returns 2.
C6_HandleRebinding ==
  [][\A h \in DOMAIN handles :
       (Rebound(h) /\ ret'.op = "get" /\ ret'.key = JsProxy(h))
         => ret'.val = JsNumber("2")]_vars

C6_Witness ==
  /\ Rebound("h1")
  /\ ret.op = "get" /\ ret.key = JsProxy("h1") /\ ret.val = JsNumber("2")

\* The canonical identity of a handle whose value is v: the text of a string;
\* for an object the encoding of the handle, whose two members both read v.
ValueIdentity(v) ==
  IF v.t = "string" THEN v.v
  ELSE "{\"value\":" \o PlainJson(v.v) \o ",\"__keyId\":" \o PlainJson(v.v) \o "}"

\* A step that is  h.value = newValue  with newValue another value than before.
ValueChanged(h) ==
  /\ ret'.op = "setValue" /\ ret'.key = JsProxy(h)
  /\ handles'[h].value # handles[h].value

StoredBy(h) == {ks \in DOMAIN store : store[ks].keyRef = JsProxy(h)}

\* C8 as stated: a get through a mutable key returns the value that was stored
\* through that key, whatever the key's value has been changed to since.
C8_ValuesSurviveKeyChange ==
  [][\A h \in DOMAIN handles :
       (ret'.op = "get" /\ ret'.key = JsProxy(h) /\ Cardinality(StoredBy(h)) = 1)
         => \E ks \in StoredBy(h) : ret'.val = store[ks].value]_vars

\* C9 as stated: two distinct handles never carry the same id, and the side
\* table holds one record for each handle created.
C9_HandleIdsUnique ==
  /\ \A g, h \in DOMAIN handles : g # h => handles[g].keyId # handles[h].keyId
  /\ Cardinality(DOMAIN keyWrappers) = Cardinality(DOMAIN handles)

\* ------------------------------------------------ the cleanup task in time
\* One caller and the cleanup thread, where a call and a cleanup pass take no
\* time: the clock advances only while the cleanup thread has no step to
\* take.  The caller sets entries, reads the size, starts and stops the task;
\* it makes no get, has, delete or clear.

\* The cleanup thread has no step to take before the clock advances: there is
\* no thread, it has exited, or it is blocked in wait_for before its deadline.
WorkerIdle ==
  \/ worker.pc \in {"none", "exited"}
  \/ worker.pc = "wait" /\ ~worker.notified /\ clock < worker.deadline

TickTimed == WorkerIdle /\ Tick

TimedOptions == {NoOptions, Options(FALSE, JsAge(0, 1)), Options(FALSE, JsAge(0, 2))}

TimedArgs == {Interval(JsAge(0, 1)), Interval(JsAge(0, 2))}

TimedCall(t) ==
  \/ \E k \in StringKeys, o \in TimedOptions : Set(t, k, JsNumber("1"), o)
  \/ Size(t)
  \/ \E a \in TimedArgs : StartCleanupTask(t, a)
  \/ StopCleanupTask(t)
  \/ StopNotify(t)
  \/ StopJoin(t)

NextTimed ==
  \/ TickTimed
  \/ TimedCall("t1")
  \/ CleanupWorker

SpecTimed == Init /\ [][NextTimed]_vars

\* ------------------------------------------------- enumeration and time
\* One caller and the cleanup thread: the caller sets entries that last one
\* tick or for ever, enumerates and counts them, clears the table and starts
\* the cleanup task with a period of one tick.

EnumOptions == {NoOptions, Options(FALSE, JsAge(0, 1))}

EnumCall(t) ==
  \/ \E k \in StringKeys, o \in EnumOptions : Set(t, k, JsNumber("1"), o)
  \/ KeysNow(t)
  \/ KeysScan(t)
  \/ GetKeysNow(t)
  \/ GetKeysCount(t)
  \/ GetKeysFill(t)
  \/ AllNow(t)
  \/ AllCount(t)
  \/ AllFill(t)
  \/ Size(t)
  \/ Clear(t)
  \/ StartCleanupTask(t, Interval(JsAge(0, 1)))

NextEnum ==
  \/ Tick
  \/ EnumCall("t1")
  \/ CleanupWorker

SpecEnum == Init /\ [][NextEnum]_vars

\* --------------------------------------------------- clear and observers
\* Thread t1 sets entries and clears the table step by step, thread t2 reads
\* the table, and the cleanup thread runs with a period of one tick.

ClearerCall(t) ==
  \/ \E k \in StringKeys, o \in EnumOptions : Set(t, k, JsNumber("1"), o)
  \/ ClearBegin(t)
  \/ ClearErase(t)
  \/ ClearEnd(t)
  \/ StartCleanupTask(t, Interval(JsAge(0, 1)))

ObserverCall(t) ==
  \/ \E k \in StringKeys : Get(t, k)
  \/ \E k \in StringKeys : Has(t, k)
  \/ Size(t)
  \/ KeysNow(t)
  \/ KeysScan(t)
  \/ AllNow(t)
  \/ AllCount(t)
  \/ AllFill(t)

NextClear ==
  \/ Tick
  \/ ClearerCall("t1")
  \/ ObserverCall("t2")
  \/ CleanupWorker

SpecClear == Init /\ [][NextClear]_vars

\* ------------------------------------------------- calls short of arguments
\* One caller that sets entries, makes a mutable key, starts the cleanup task
\* and makes calls with too few arguments, and the cleanup thread.

ArgsCall(t) ==
  \/ \E k \in StringKeys, o \in EnumOptions : Set(t, k, JsNumber("1"), o)
  \/ CreateMutableKey(t, JsString("a"))
  \/ StartCleanupTask(t, Interval(JsAge(0, 1)))
  \/ \E n \in TooFew(2) : SetWrongArguments(t, n)
  \/ GetNoKey(t)
  \/ HasNoKey(t)
  \/ DeleteNoKey(t)
  \/ CreateMutableKeyNoValue(t)

NextArgs ==
  \/ Tick
  \/ ArgsCall("t1")
  \/ CleanupWorker

SpecArgs == Init /\ [][NextArgs]_vars

\* ------------------------------------------------------- keys of any kind
\* One caller that uses a string, a number, a boolean, a plain object, a
\* function, an object that refers to itself and a mutable key as keys.

KeyInputs ==
  {JsString("a"), JsNumber("1"), JsBoolean(TRUE), JsObject("o1"),
   JsFunction("f"), JsObject("cyc")} \cup {JsProxy(h) : h \in DOMAIN handles}

KeysCall(t) ==
  \/ CreateMutableKey(t, JsString("b"))
  \/ \E k \in KeyInputs : Set(t, k, JsNumber("1"), NoOptions)
  \/ \E k \in KeyInputs : Get(t, k)
  \/ \E k \in KeyInputs : Has(t, k)
  \/ \E k \in KeyInputs : Delete(t, k)

NextKeys == KeysCall("t1")

SpecKeys == Init /\ [][NextKeys]_vars

\* ------------------------------------------------- the wrapper's constructor
\* new MemoryStoreWrapper(options): the native constructor, then the start of
\* the cleanup task unless options.autoStartCleanup is false.

\* The options object: cleanupInterval absent or a number, autoStartCleanup
\* undefined or a boolean.
WrapperOptions(interval, autoStart) ==
  [cleanupInterval |-> interval, autoStartCleanup |-> autoStart]

\* The interval the native constructor leaves in cleanupIntervalMs.
ConstructInterval(options) ==
  IF options.cleanupInterval.given
    THEN Uint32Value(options.cleanupInterval.ms) ELSE DefaultCleanupIntervalMs

\* A JavaScript number that is not 0 (nor NaN) is truthy.
Truthy(n) == n.hi # 0 \/ n.lo # 0

\* The wrapper that reads autoStartCleanup as false whatever it is given.
WrapperNeverStarts(options) == FALSE

\* options.autoStartCleanup !== false
WrapperStarts(options) == options.autoStartCleanup # JsBoolean(FALSE)

\* options.cleanupInterval || 60000
WrapperStartArg(options) ==
  IF options.cleanupInterval.given /\ Truthy(options.cleanupInterval.ms)
    THEN Interval(options.cleanupInterval.ms)
    ELSE Interval(JsAge(0, 60000))

\* The intervalMs = 60000 the wrapper's startCleanupTask passes on when it
\* is called with no argument.
DefaultedInterval ==
  [given |-> TRUE, ms |-> JsAge(0, 60000), defaulted |-> TRUE]

\* MemoryStoreWrapper.startCleanupTask(intervalMs = 60000)
WrapperStartCleanupTask(t, arg) ==
  StartCleanupTask(t, IF arg.given THEN arg ELSE DefaultedInterval)

\* The options the wrapper is constructed with.
ConstructOptions ==
  {WrapperOptions(i, a) :
     i \in {NoInterval, Interval(JsAge(0, 0)), Interval(JsAge(0, 1)),
            Interval(JsAge(0, 2)), Interval(JsAge(1, 0))},
     a \in {JsUndefined, JsBoolean(TRUE), JsBoolean(FALSE)}}

\* The state when new MemoryStoreWrapper(options) returns.
InitWrapper ==
  \E o \in ConstructOptions :
    /\ clock = 0
    /\ store = EmptyMap
    /\ keyWrappers = EmptyMap
    /\ handles = EmptyMap
    /\ storeMutex = "free"
    /\ stopCleanup = ~WrapperStarts(o)
    /\ cleanupIntervalMs =
         IF WrapperStarts(o)
           THEN StartInterval(WrapperStartArg(o), ConstructInterval(o))
           ELSE ConstructInterval(o)
    /\ worker = [pc |-> IF WrapperStarts(o) THEN "loop" ELSE "none",
                 now |-> 0, interval |-> 0, deadline |-> 0,
                 notified |-> FALSE]
    /\ pc = [t \in Threads |-> "idle"]
    /\ item = [t \in Threads |-> NoItem]
    /\ locals = [t \in Threads |-> NoLocals]
    /\ ret = Returns("t1", "construct", o, JsUndefined)

\* The calls made on the constructed store: entries that last one tick, and
\* the task started and stopped.
WrapperCall(t) ==
  \/ Set(t, JsString("a"), JsNumber("1"), Options(FALSE, JsAge(0, 1)))
  \/ Get(t, JsString("a"))
  \/ Size(t)
  \/ \E a \in {NoInterval, Interval(JsAge(0, 2))} :
       WrapperStartCleanupTask(t, a)
  \/ StopCleanupTask(t)
  \/ StopNotify(t)
  \/ StopJoin(t)

NextWrapper ==
  \/ Tick
  \/ WrapperCall("t1")
  \/ CleanupWorker

SpecWrapper == InitWrapper /\ [][NextWrapper]_vars

\* ------------------------------------------------------- options of set
\* One caller that sets with no options, with an age and no isPermanent, with
\* isPermanent true and an age, and with isPermanent false and an age, under
\* a string key and under an object that refers to itself, while the cleanup
\* task runs or not.

PermKeys == {JsString("a"), JsObject("cyc")}

PermOptions ==
  {NoOptions, OptionsAge(JsAge(0, 1)), Options(TRUE, JsAge(0, 1)),
   Options(FALSE, JsAge(0, 1))}

PermCall(t) ==
  \/ \E k \in PermKeys, o \in PermOptions : Set(t, k, JsNumber("1"), o)
  \/ \E k \in PermKeys : Get(t, k)
  \/ \E k \in PermKeys : Has(t, k)
  \/ StartCleanupTask(t, Interval(JsAge(0, 1)))
  \/ StopCleanupTask(t)
  \/ StopNotify(t)
  \/ StopJoin(t)

NextPerm ==
  \/ Tick
  \/ PermCall("t1")
  \/ CleanupWorker

SpecPerm == Init /\ [][NextPerm]_vars

\* ------------------------------------------------------------- destructor
\* ~MemoryStore(): set the flag, notify, join the cleanup thread if there is
\* one.  A destroyed store takes no further call.

\* stopCleanup = true (the mutex is not taken)
Destroy(t) ==
  /\ pc[t] = "idle"
  /\ stopCleanup' = TRUE
  /\ pc' = [pc EXCEPT ![t] = "destroy_notify"]
  /\ ret' = NoRet
  /\ UNCHANGED <<clock, store, keyWrappers, handles, storeMutex,
                 cleanupIntervalMs, worker, item, locals>>

\* cleanupCV.notify_one()
DestroyNotify(t) ==
  /\ pc[t] = "destroy_notify"
  /\ worker' = IF worker.pc = "wait"
                 THEN [worker EXCEPT !.notified = TRUE] ELSE worker
  /\ pc' = [pc EXCEPT ![t] = "destroy_join"]
  /\ ret' = NoRet
  /\ UNCHANGED <<clock, store, keyWrappers, handles, storeMutex, stopCleanup,
                 cleanupIntervalMs, item, locals>>

\* A destructor that ends without joining the cleanup thread.
DestroyJoinDetach(t) ==
  /\ pc[t] = "destroy_join"
  /\ pc' = [pc EXCEPT ![t] = "destroyed"]
  /\ ret' = ReturnsErased(t, "destroy", JsUndefined, JsUndefined, Joinable)
  /\ UNCHANGED <<clock, store, keyWrappers, handles, storeMutex, stopCleanup,
                 cleanupIntervalMs, worker, item, locals>>

\* if (cleanupThread.joinable()) cleanupThread.join(); then the members are
\* destroyed.  The step records whether there was a thread to join.
DestroyJoin(t) ==
  /\ pc[t] = "destroy_join"
  /\ Joinable => worker.pc = "exited"
  /\ worker' = [worker EXCEPT !.pc = "none"]
  /\ pc' = [pc EXCEPT ![t] = "destroyed"]
  /\ ret' = ReturnsErased(t, "destroy", JsUndefined, JsUndefined, Joinable)
  /\ UNCHANGED <<clock, store, keyWrappers, handles, storeMutex, stopCleanup,
                 cleanupIntervalMs, item, locals>>

\* One caller that sets, gets, starts and stops the task, and in the end
\* lets the store be destroyed.
DestroyCall(t) ==
  \/ \E k \in StringKeys, o \in SetOptions : Set(t, k, JsNumber("1"), o)
  \/ \E k \in StringKeys : Get(t, k)
  \/ \E a \in {Interval(JsAge(0, 1)), Interval(JsAge(0, 2))} :
       StartCleanupTask(t, a)
  \/ StopCleanupTask(t)
  \/ StopNotify(t)
  \/ StopJoin(t)
  \/ Destroy(t)
  \/ DestroyNotify(t)
  \/ DestroyJoin(t)

NextDestroy ==
  \/ Tick
  \/ DestroyCall("t1")
  \/ CleanupWorker

SpecDestroy == Init /\ [][NextDestroy]_vars

\* ------------------------------------------------------ calls that return
\* One thread that sets entries and starts and stops the task, one that
\* makes keys, reads, deletes, clears and enumerates, and the cleanup thread, all
\* scheduled fairly, with the clock read at 0 .. MaxIdTime.

\* At the last reading the model's clock gives, time still passes for a
\* thread blocked in wait_for: the deadline of its wait arrives.
TickPast ==
  /\ clock = MaxIdTime
  /\ worker.pc = "wait"
  /\ worker.deadline > clock
  /\ worker' = [worker EXCEPT !.deadline = clock]
  /\ ret' = NoRet
  /\ UNCHANGED <<clock, store, keyWrappers, handles, storeMutex, stopCleanup,
                 cleanupIntervalMs, pc, item, locals>>

WriterCall(t) ==
  \/ SetPrepare(t, JsString("a"), JsNumber("1"), Options(FALSE, JsAge(0, 1)))
  \/ SetInsert(t)
  \/ StartCleanupTask(t, Interval(JsAge(0, 1)))
  \/ StopCleanupTask(t)
  \/ StopNotify(t)
  \/ StopJoin(t)

ReaderCall(t) ==
  \/ CreateMutableKey(t, JsString("b"))
  \/ Get(t, JsString("a"))
  \/ Has(t, JsString("a"))
  \/ Delete(t, JsString("a"))
  \/ Size(t)
  \/ ClearBegin(t)
  \/ ClearErase(t)
  \/ ClearEnd(t)
  \/ KeysNow(t)
  \/ KeysScan(t)
  \/ AllNow(t)
  \/ AllCount(t)
  \/ AllFill(t)

NextLive ==
  \/ TickIds
  \/ TickPast
  \/ WriterCall("t1")
  \/ ReaderCall("t2")
  \/ CleanupWorker

\* Fair scheduling: time passes; a thread that can take a step takes it; a
\* thread that waits for the mutex gets it when it is free again and again.
\* Whether a caller makes another call is left open.
FairLive ==
  /\ WF_vars(TickIds)
  /\ WF_vars(TickPast)
  /\ WF_vars(WorkerLoop)
  /\ WF_vars(WorkerNow)
  /\ SF_vars(WorkerLock)
  /\ WF_vars(WorkerErase)
  /\ WF_vars(WorkerUnlock)
  /\ SF_vars(WorkerWaitLock)
  /\ WF_vars(WorkerPred)
  /\ WF_vars(WorkerBlock)
  /\ SF_vars(WorkerWake)
  /\ SF_vars(SetInsert("t1"))
  /\ WF_vars(StopNotify("t1"))
  /\ WF_vars(StopJoin("t1"))
  /\ WF_vars(ClearErase("t2"))
  /\ WF_vars(ClearEnd("t2"))
  /\ SF_vars(KeysScan("t2"))
  /\ SF_vars(AllCount("t2"))
  /\ SF_vars(AllFill("t2"))

SpecLive == Init /\ [][NextLive]_vars /\ FairLive

\* ------------------------------------------------------ deadlines of entries
\* One caller whose sets carry every combination of permanence and age (an
\* age of 0, and an age of 2^32, which is stored as 0, included), with time
\* passing between the building of an item and its insertion, and the
\* cleanup thread.

DeadlineOptions ==
  {NoOptions, Options(TRUE, JsAge(0, 1)), Options(FALSE, JsAge(0, 0)),
   Options(FALSE, JsAge(0, 1)), Options(FALSE, JsAge(0, 2)),
   Options(FALSE, JsAge(1, 0))}

DeadlineCall(t) ==
  \/ \E k \in StringKeys, o \in DeadlineOptions :
       SetPrepare(t, k, JsNumber("1"), o)
  \/ SetInsert(t)
  \/ \E k \in StringKeys : Get(t, k)
  \/ \E k \in StringKeys : Delete(t, k)
  \/ StartCleanupTask(t, Interval(JsAge(0, 1)))
  \/ StopCleanupTask(t)
  \/ StopNotify(t)
  \/ StopJoin(t)

NextDeadline ==
  \/ Tick
  \/ DeadlineCall("t1")
  \/ CleanupWorker

SpecDeadline == Init /\ [][NextDeadline]_vars

\* --------------------------------------------------------- removal paths
\* Thread t1 sets entries that last one tick, deletes and starts the task;
\* thread t2 gets, asks, deletes and clears; the cleanup thread sweeps.

RemoverCall(t) ==
  \/ \E k \in StringKeys : Set(t, k, JsNumber("1"), Options(FALSE, JsAge(0, 1)))
  \/ \E k \in StringKeys : Delete(t, k)
  \/ StartCleanupTask(t, Interval(JsAge(0, 1)))

EvicterCall(t) ==
  \/ \E k \in StringKeys : Get(t, k)
  \/ \E k \in StringKeys : Has(t, k)
  \/ \E k \in StringKeys : Delete(t, k)
  \/ Clear(t)

NextRemove ==
  \/ Tick
  \/ RemoverCall("t1")
  \/ EvicterCall("t2")
  \/ CleanupWorker

SpecRemove == Init /\ [][NextRemove]_vars

\* ------------------------------------------------- mutable keys and the task
\* One caller that makes mutable keys, rebinds them, uses them as keys of
\* entries that last one tick or for ever, clears the table and starts and
\* stops the task, and the cleanup thread, with the clock read at
\* 0 .. MaxIdTime.

KeepValues == {JsString("a"), JsString("b")}

KeepOptions == {NoOptions, Options(FALSE, JsAge(0, 1))}

ProxyKeys == {JsProxy(h) : h \in DOMAIN handles}

KeepCall(t) ==
  \/ CreateMutableKey(t, JsString("a"))
  \/ \E h \in DOMAIN handles, v \in KeepValues : setFunction(t, h, v)
  \/ \E k \in ProxyKeys, v \in Values, o \in KeepOptions : Set(t, k, v, o)
  \/ \E k \in ProxyKeys : Get(t, k)
  \/ \E k \in ProxyKeys : Has(t, k)
  \/ \E k \in ProxyKeys : Delete(t, k)
  \/ Clear(t)
  \/ StartCleanupTask(t, Interval(JsAge(0, 1)))
  \/ StopCleanupTask(t)
  \/ StopNotify(t)
  \/ StopJoin(t)

NextKeep ==
  \/ TickIds
  \/ KeepCall("t1")
  \/ CleanupWorker

SpecKeep == Init /\ [][NextKeep]_vars

\* ------------------------------------------------------ ages of 2^32 and more
\* One caller whose sets are non-permanent with an age below 2^32, a multiple
\* of 2^32, or 2^32 and more with a remainder, each storing as value the age
\* it was given, and the cleanup thread.

AgeInputs ==
  {JsAge(0, 0), JsAge(0, 1), JsAge(0, 2), JsAge(1, 0), JsAge(1, 1),
   JsAge(1, 2), JsAge(2, 0)}

\* The decimal text of the number n.hi * 2^32 + n.lo.
AgeText(n) ==
  IF n.hi = 0 THEN ToString(n.lo)
  ELSE IF n.hi = 1 THEN "429496729" \o ToString(6 + n.lo)
  ELSE "8589934592"

\* store.set(k, n, { isPermanent: false, maxAgeMs: n })
AgeCall(t) ==
  \/ \E k \in StringKeys, n \in AgeInputs :
       Set(t, k, JsNumber(AgeText(n)), Options(FALSE, n))
  \/ \E k \in StringKeys : Get(t, k)
  \/ \E k \in StringKeys : Has(t, k)
  \/ StartCleanupTask(t, Interval(JsAge(0, 1)))

NextAge ==
  \/ Tick
  \/ AgeCall("t1")
  \/ CleanupWorker

SpecAge == Init /\ [][NextAge]_vars

\* ------------------------------------------------------- ids used as keys
\* One caller that makes mutable keys with the value "a" and uses as keys the
\* proxies, plain objects that carry a __keyId, and the strings those ids and
\* that value spell.

ShareKeys ==
  ProxyKeys \cup {JsObject(k) : k \in IdObjects}
            \cup {JsString("key_0"), JsString("x"), JsString("a")}

ShareCall(t) ==
  \/ CreateMutableKey(t, JsString("a"))
  \/ \E k \in ShareKeys, v \in Values : Set(t, k, v, NoOptions)
  \/ \E k \in ShareKeys : Get(t, k)
  \/ \E k \in ShareKeys : Has(t, k)
  \/ \E k \in ShareKeys : Delete(t, k)

NextShare ==
  \/ TickIds
  \/ ShareCall("t1")

SpecShare == Init /\ [][NextShare]_vars

\* ---------------------------------------------------------- the empty key
\* One caller that passes null, undefined, the empty string and "a" as keys
\* of entries that last one tick or for ever, and makes a get with no key.

EmptyKeys == {JsNull, JsUndefined, JsString("")}

EmptyOptions == {NoOptions, Options(FALSE, JsAge(0, 1))}

EmptyCall(t) ==
  \/ \E k \in EmptyKeys \cup {JsString("a")}, v \in Values, o \in EmptyOptions :
       Set(t, k, v, o)
  \/ \E k \in EmptyKeys \cup {JsString("a")} : Get(t, k)
  \/ \E k \in EmptyKeys \cup {JsString("a")} : Has(t, k)
  \/ \E k \in EmptyKeys \cup {JsString("a")} : Delete(t, k)
  \/ GetNoKey(t)

NextEmpty ==
  \/ Tick
  \/ EmptyCall("t1")

SpecEmpty == Init /\ [][NextEmpty]_vars

\* ---------------------------------------- claims on expiry and the task

\* The entry under key string ks is there, non-permanent with a positive age,
\* and its deadline has passed at the time now.
DeadlinePassed(ks, now) ==
  /\ ks \in DOMAIN store
  /\ ~store[ks].isPermanent
  /\ store[ks].maxAgeMs > 0
  /\ store[ks].expiresAt <= now

\* The entry under key string ks is there and its deadline has not passed.
Live(ks, now) == ks \in DOMAIN store /\ ~DeadlinePassed(ks, now)

\* C3: in every interleaving of the caller and the cleanup thread, get never
\* returns the value of, and has never answers true for, an entry whose
\* deadline has passed at the lookup; has answers true exactly when get on
\* the same table would return the stored value; both erase the expired entry
\* they find in the step of the lookup, which no other thread's critical
\* section overlaps. Checked under Spec.
C3_NoExpiredObserved ==
  [][\A k \in StringKeys :
       (ret'.op \in {"get", "has"} /\ ret'.key = k)
         => /\ storeMutex = "free" /\ storeMutex' = "free"
            /\ DeadlinePassed(k.v, clock)
                 => /\ ret'.val = IF ret'.op = "get" THEN JsUndefined
                                                    ELSE JsBoolean(FALSE)
                    /\ store' = Erase(store, k.v)
                    /\ ret'.erased
            /\ ~DeadlinePassed(k.v, clock) => store' = store /\ ~ret'.erased
            /\ ret'.op = "has" => ret'.val = JsBoolean(Live(k.v, clock))
            /\ ret'.op = "get"
                 => ret'.val = IF Live(k.v, clock) THEN store[k.v].value
                                                   ELSE JsUndefined]_vars

\* A has found an expired entry, answered false and erased it, while the
\* cleanup task runs.
C3_Witness ==
  /\ ret.op = "has" /\ ret.val = JsBoolean(FALSE) /\ ret.erased
  /\ ret.key.v \notin DOMAIN store
  /\ ~stopCleanup /\ worker.pc \notin {"none", "exited"}

\* C10 as stated: startCleanupTask called while the task runs returns false
\* and changes nothing: the flag, the cleanup thread and the interval stay as
\* they were. Checked under Spec.
C10_StartWhileRunningNoOp ==
  [][(ret'.op = "startCleanupTask" /\ ~stopCleanup)
       => /\ ret'.val = JsBoolean(FALSE)
          /\ UNCHANGED <<stopCleanup, worker, cleanupIntervalMs, store,
                         keyWrappers, handles, storeMutex>>]_vars

C11_StopJoins ==
  [][/\ (ret'.op = "stopCleanupTask" /\ ret'.val = JsBoolean(TRUE))
          => /\ pc[ret'.by] = "stop_join"
             /\ worker.pc \in {"exited", "none"}
             /\ worker'.pc = "none"
             /\ stopCleanup' /\ storeMutex' = "free"
     /\ (ret'.op = "stopCleanupTask" /\ ret'.val = JsBoolean(FALSE))
          => /\ stopCleanup /\ pc[ret'.by] = "idle"
             /\ UNCHANGED <<clock, store, keyWrappers, handles, storeMutex,
                            stopCleanup, cleanupIntervalMs, worker, pc, item,
                            locals>>
     /\ \A t \in Threads :
          (pc[t] = "idle" /\ pc'[t] = "stop_notify") => ~stopCleanup
     /\ (worker.pc = "none" /\ worker'.pc # "none")
          => ret'.op = "startCleanupTask" /\ ret'.val = JsBoolean(TRUE)
     /\ (stopCleanup' /\ pc'["t1"] = "idle") => worker'.pc = "none"]_vars

\* A stop made while the task ran has returned true after the clock advanced,
\* and no cleanup thread is left.
C11_Witness ==
  /\ ret.op = "stopCleanupTask" /\ ret.val = JsBoolean(TRUE)
  /\ worker.pc = "none" /\ stopCleanup /\ clock > 0

\* C12 as stated: there is no state in which the stop flag is set, the
\* notification has been issued, and the cleanup thread is blocked in its
\* wait with nothing to wake it before its deadline. Checked under Spec.
C12_StopInterruptsWait ==
  ~ /\ stopCleanup
    /\ pc["t1"] = "stop_join"
    /\ worker.pc = "wait"
    /\ ~worker.notified
    /\ clock < worker.deadline

\* An array with no empty position.
NoHoles(arr) == \A i \in 1..Len(arr.v) : arr.v[i] # JsHole

\* C13 as stated: keys, getKeys and all each return one element for each
\* entry of one table state that is not expired, with no missing or empty
\* position, also when a cleanup pass runs between the enumeration's steps.
\* Checked under SpecEnum.
C13_EnumerationSnapshot ==
  (ret.op \in {"keys", "getKeys", "all"})
    => NoHoles(ret.val)

\* The entries of the table whose deadline has passed at the time now.
Unswept(now) == {ks \in DOMAIN store : DeadlinePassed(ks, now)}

\* C14: size returns the number of entries in the table, those whose
\* deadline has passed and that are not yet evicted included; so it is at
\* least the length of keys() on the same table, and strictly larger when an
\* expired entry is still in the table. Checked under SpecEnum.
C14_SizeRawOccupancy ==
  [][/\ (ret'.op = "size")
          => /\ ret'.val = JsNumber(ToString(Cardinality(DOMAIN store)))
             /\ store' = store
             /\ Cardinality(DOMAIN store)
                  = Len(ValidKeys(store, clock)) + Cardinality(Unswept(clock))
     /\ (ret'.op = "keys")
          => /\ Len(ret'.val.v) <= Cardinality(DOMAIN store)
             /\ Len(ret'.val.v)
                  = Cardinality(DOMAIN store)
                      - Cardinality(Unswept(locals["t1"].now))
             /\ \A i \in 1..Len(ret'.val.v) :
                  /\ ret'.val.v[i].v \in DOMAIN store
                  /\ ~DeadlinePassed(ret'.val.v[i].v, locals["t1"].now)]_vars

\* A size has counted one entry, and that entry's deadline has passed.
C14_Witness ==
  /\ ret.op = "size" /\ ret.val = JsNumber("1")
  /\ Cardinality(Unswept(clock)) = 1
  /\ Len(ValidKeys(store, clock)) = 0

\* C15: delete(k) returns true exactly when an entry for k was in the table
\* at the call, expired or not, and false otherwise; after it the identity
\* is absent, the table is one entry smaller when it returned true, and every
\* other entry is unchanged. Checked under Spec.
C15_DeleteReports ==
  [][\A k \in StringKeys :
       (ret'.op = "delete" /\ ret'.key = k)
         => /\ ret'.val = JsBoolean(k.v \in DOMAIN store)
            /\ k.v \notin DOMAIN store'
            /\ GetResult(store', k.v, clock') = JsUndefined
            /\ HasResult(store', k.v, clock') = JsBoolean(FALSE)
            /\ DOMAIN store' = DOMAIN store \ {k.v}
            /\ Cardinality(DOMAIN store')
                 = Cardinality(DOMAIN store)
                     - (IF ret'.val = JsBoolean(TRUE) THEN 1 ELSE 0)
            /\ \A ks \in DOMAIN store' : store'[ks] = store[ks]]_vars

\* A delete has returned true and removed its entry, and the other entry,
\* whose deadline has passed, is still in the table.
C15_Witness ==
  /\ ret.op = "delete" /\ ret.val = JsBoolean(TRUE) /\ ret.erased
  /\ ret.key.v \notin DOMAIN store
  /\ Cardinality(Unswept(clock)) = 1

\* C16: clear returns true every time, on an empty table too, and leaves
\* the table empty; on the table it leaves, size returns 0 and keys returns
\* an empty array. Checked under SpecEnum.
C16_ClearIdempotent ==
  [][/\ (ret'.op = "clear")
          => /\ ret'.val = JsBoolean(TRUE)
             /\ store' = EmptyMap
             /\ ValidKeys(store', clock') = <<>>
     /\ (ret.op = "clear" /\ ret'.op = "clear") => ret'.val = JsBoolean(TRUE)
     /\ (ret.op = "clear" /\ ret'.op = "size") => ret'.val = JsNumber("0")
     /\ (store = EmptyMap /\ ret'.op = "size") => ret'.val = JsNumber("0")
     /\ (store = EmptyMap /\ ret'.op = "keys") => ret'.val = JsArray(<<>>)]_vars

\* A clear has emptied a table that held entries, and returned true.
C16_Witness ==
  /\ ret.op = "clear" /\ ret.val = JsBoolean(TRUE) /\ ret.erased
  /\ store = EmptyMap

\* The calls that read the table.
ObserverOps == {"get", "has", "size", "keys", "getKeys", "all"}

\* A step in which a thread counts entries, or drops its count at a return.
Counts == \E u \in Threads : locals'[u].count # locals[u].count

\* C17: a get, has, size, keys, all or cleanup pass that runs while a clear
\* is in progress sees the table as it was before the clear or the empty
\* table: from the clear's first erase to its last the clearing thread holds
\* the mutex, no reading call returns or counts, and the cleanup thread does
\* not scan; every read happens with no clear in progress.
\* Checked under SpecClear.
C17_ClearAtomic ==
  [][\A t \in Threads :
       /\ (pc[t] = "clear_erase")
            => /\ storeMutex = t
               /\ ret'.op \notin ObserverOps \cup {"erase"}
               /\ ~Counts
               /\ worker.pc # "scan" /\ worker'.pc # "scan"
               /\ store' # store => pc'[t] = "clear_erase"
       /\ (ret'.op \in ObserverOps \/ Counts \/ worker.pc = "scan")
            => pc[t] # "clear_erase"]_vars

\* A clear has removed one of two entries and holds the mutex, while the
\* other thread waits to scan and the cleanup thread waits for the mutex.
C17_Witness ==
  /\ pc["t1"] = "clear_erase"
  /\ Cardinality(DOMAIN store) = 1
  /\ pc["t2"] \in {"keys_scan", "all_fill"}
  /\ worker.pc = "lock"

\* The times at which an entry may be looked up.
Times == 0..(MaxTime + 1)

\* C18: a set on an identity that already has an entry replaces its value,
\* permanent flag, age and deadline in one step under the mutex, so what the
\* entry does afterwards depends on the latest set alone: after a permanent
\* overwrite it never expires, after an overwrite with a positive age it
\* expires at the new deadline; the new value never stands with the old
\* deadline. Checked under Spec.
C18_OverwriteReplacesAll ==
  [][\A k \in StringKeys :
       (ret'.op = "set" /\ ret'.key = k /\ k.v \in DOMAIN store)
         => LET new == store'[k.v]
                built == item[ret'.by].it
            IN  /\ storeMutex = "free" /\ storeMutex' = "free"
                /\ new = built
                /\ new.isPermanent
                     => /\ new.expiresAt = TimePointMax
                        /\ \A n \in Times :
                             GetResult(store', k.v, n) = built.value
                /\ (~new.isPermanent /\ new.maxAgeMs > 0)
                     => \A n \in Times :
                          GetResult(store', k.v, n)
                            = IF n < built.expiresAt THEN built.value
                                                     ELSE JsUndefined
                /\ \A ks \in DOMAIN store \ {k.v} :
                     ks \in DOMAIN store' /\ store'[ks] = store[ks]]_vars

\* A permanent set has overwritten an entry after the clock advanced, while
\* the task runs, and the entry is now permanent.
C18_Witness ==
  /\ ret.op = "set" /\ ret.erased
  /\ ret.key.v \in DOMAIN store
  /\ store[ret.key.v].isPermanent
  /\ store[ret.key.v].expiresAt = TimePointMax
  /\ clock > 1
  /\ ~stopCleanup

\* The call of the step returns a TypeError and the entry table, the side
\* table of keys, the keys' targets and the cleanup task are as they were.
Rejected ==
  /\ ret'.val.t = "error"
  /\ UNCHANGED <<store, keyWrappers, handles, storeMutex, stopCleanup,
                 cleanupIntervalMs, worker, pc, item, locals>>

C20_CanonicalizationTotal ==
  [][(ret'.op \in {"set", "get", "has", "delete"})
       => /\ ret'.val.t # "error"
          /\ ret'.op = "set" => ret'.val = JsBoolean(TRUE)]_vars

\* ------------------------------------------- claims on construction and set

\* The store was just constructed from options o.
Constructed(o) == ret.op = "construct" /\ ret.key = o

\* Constructed with autoStartCleanup false the task is stopped and no cleanup
\* thread exists; otherwise the task runs with its thread launched.
StartsAsAsked(o) ==
  IF o.autoStartCleanup = JsBoolean(FALSE)
    THEN stopCleanup /\ worker.pc = "none" /\ store = EmptyMap
    ELSE ~stopCleanup /\ worker.pc = "loop"

\* After construction: each wait of the cleanup thread lasts the interval
\* stored at the time, the stored interval changes only in a
\* startCleanupTask, a cleanup thread comes to exist only by a
\* startCleanupTask that returns true, and only a pass of the cleanup thread
\* erases an entry no call asked to erase.
SweepsAsConfigured ==
  /\ (worker.pc = "wlock" /\ worker'.pc = "pred")
       => /\ worker'.interval = cleanupIntervalMs
          /\ worker'.deadline = clock + cleanupIntervalMs
  /\ (cleanupIntervalMs' # cleanupIntervalMs) => ret'.op = "startCleanupTask"
  /\ (worker.pc = "none" /\ worker'.pc # "none")
       => ret'.op = "startCleanupTask" /\ ret'.val = JsBoolean(TRUE)
  /\ (ret'.op = "erase") => worker.pc = "scan" /\ ret'.by = "cleanup"
  /\ (worker.pc = "none" /\ ret'.op \notin {"get", "has"})
       => DOMAIN store \subseteq DOMAIN store'

StartedWithoutInterval ==
  ret'.op = "startCleanupTask" /\ ret'.key = DefaultedInterval

\* C22 as stated: startCleanupTask() called without an interval leaves the
\* stored interval, and so the sweep period, as it was configured; the
\* interval changes only in a call that supplies one. Checked under
\* SpecWrapper.
C22_StartKeepsConfiguredInterval ==
  [][/\ StartedWithoutInterval => cleanupIntervalMs' = cleanupIntervalMs
     /\ (cleanupIntervalMs' # cleanupIntervalMs)
          => ret'.op = "startCleanupTask" /\ ~StartedWithoutInterval]_vars

\* The item a set builds from options that do not carry isPermanent false
\* is permanent with the "never" deadline, whatever age the options give,
\* and the entry a set leaves in the table is the item built from its
\* options at the time of the call.
PermanentByDefault ==
  /\ \A k \in PermKeys, o \in PermOptions :
       (~o.isObject \/ ~o.hasPermanent \/ o.isPermanent)
         => /\ StoreItem(clock, k, JsNumber("1"), o).isPermanent
            /\ StoreItem(clock, k, JsNumber("1"), o).expiresAt = TimePointMax
  /\ (ret'.op = "set")
       => /\ KeyString(ret'.key) \in DOMAIN store'
          /\ \E o \in PermOptions :
               store'[KeyString(ret'.key)]
                 = StoreItem(clock, ret'.key, JsNumber("1"), o)

\* A permanent entry is not removed, and not changed, by the passing of time,
\* by a get or a has, or by a pass of the cleanup thread.
PermanentStays ==
  \A ks \in DOMAIN store :
    (store[ks].isPermanent /\ ret'.op # "set")
      => ks \in DOMAIN store' /\ store'[ks] = store[ks]

\* C23 as stated: a set with no options, or with options that do not set
\* isPermanent to false, stores an entry that never expires whatever maxAgeMs
\* is given, and every set called with a key and a value returns true.
\* Checked under SpecPerm.
C23_SetDefaultsPermanent ==
  [][/\ PermanentByDefault
     /\ PermanentStays
     /\ (ret'.op = "set") => ret'.val = JsBoolean(TRUE)]_vars

\* C24: when the destructor of a store has completed, no cleanup thread is
\* alive: the thread that ran has exited and been joined, it holds no mutex,
\* and the flag is set, whether the task ran at destruction, was stopped, or
\* was never started. Checked under SpecDestroy.
C24_TeardownJoins ==
  \A t \in Threads :
    (pc[t] = "destroyed")
      => /\ worker.pc = "none"
         /\ storeMutex = "free"
         /\ stopCleanup

\* A store whose task ran has been destroyed with entries still in the table:
\* the destructor joined the cleanup thread.
C24_Witness ==
  /\ pc["t1"] = "destroyed"
  /\ ret.op = "destroy" /\ ret.erased
  /\ store # EmptyMap
  /\ worker.pc = "none"

\* The foreground operations that are one critical section.
OneSection ==
  {"set", "get", "has", "delete", "size", "keys", "all", "createMutableKey"}

\* Every step that changes or reads the entry table, or adds to the handle
\* side table, is taken by the thread
\* that holds the mutex, or is a critical section of its own that finds the
\* mutex free and leaves it free; a call that returns does not hold the
\* mutex afterwards; a stop returns with the mutex not held by anyone's
\* finished work.
LockDiscipline ==
  /\ storeMutex' \in {"free", "worker"} \cup Threads
  /\ (store' # store)
       => \/ storeMutex = "worker" /\ storeMutex' = "worker"
               /\ ret'.op = "erase"
          \/ \E t \in Threads : storeMutex = t /\ storeMutex' = t
               /\ pc[t] = "clear_erase"
          \/ storeMutex = "free" /\ storeMutex' = "free"
               /\ ret'.op \in OneSection
  /\ (keyWrappers' # keyWrappers)
       => storeMutex = "free" /\ ret'.op = "createMutableKey"
  /\ (ret'.op \in OneSection) => storeMutex = "free" /\ storeMutex' = "free"
  /\ (ret'.op \notin {"none", "erase"}) => storeMutex' # ret'.by
  /\ (storeMutex = "free" /\ storeMutex' # "free")
       => \/ storeMutex' = "worker" /\ worker'.pc \in {"scan", "pred"}
          \/ \E t \in Threads : storeMutex' = t /\ pc'[t] = "clear_erase"

\* C25: the entry table is changed and read only under the mutex, which one
\* thread holds at a time and which every call has released when it returns;
\* and under fair scheduling every call that has begun returns, and the mutex
\* when held becomes free again, so a call waiting for it proceeds: no
\* deadlock arises between the callers, the scan, the wait and the join of
\* stopCleanupTask. Checked under SpecLive.
C25_LocksAndProgress ==
  /\ [][LockDiscipline]_vars
  /\ \A t \in Threads : (pc[t] # "idle") ~> (pc[t] = "idle")
  /\ (storeMutex # "free") ~> (storeMutex = "free")

\* A stopCleanupTask has returned true at the clock's last reading, with an
\* entry in the table, the mutex free and the other thread between the two
\* critical sections of all().
C25_Witness ==
  /\ ret.op = "stopCleanupTask" /\ ret.val = JsBoolean(TRUE)
  /\ pc["t1"] = "idle" /\ pc["t2"] = "all_fill"
  /\ store # EmptyMap
  /\ storeMutex = "free"
  /\ clock = MaxIdTime

\* In the table as it is: an entry's deadline is "never" exactly when the
\* entry is permanent or its age is 0, and any other deadline is its age
\* after a clock reading made no later than now.
DeadlineInvariant ==
  \A ks \in DOMAIN store :
    /\ (store[ks].expiresAt = TimePointMax)
         <=> (store[ks].isPermanent \/ store[ks].maxAgeMs = 0)
    /\ (store[ks].expiresAt # TimePointMax)
         => store[ks].expiresAt - store[ks].maxAgeMs \in 0..clock

\* In every step: the item a set builds gets as deadline the clock it reads
\* plus its age (or "never"), the insertion stores that item as built, and no
\* other step changes the timing of an entry that stays in the table.
DeadlineWritten ==
  /\ \A t \in Threads :
       (pc[t] = "idle" /\ pc'[t] = "set_insert")
         => LET it == item'[t].it
            IN  it.expiresAt = IF it.isPermanent \/ it.maxAgeMs = 0
                                 THEN TimePointMax
                                 ELSE clock + it.maxAgeMs
  /\ \A t \in Threads :
       (pc[t] = "set_insert" /\ pc'[t] = "idle")
         => store'[item[t].key] = item[t].it
  /\ \A ks \in DOMAIN store \cap DOMAIN store' :
       (ret'.op # "set") => store'[ks] = store[ks]

\* C26: in every reachable table state each entry's expiresAt is the "never"
\* value if and only if the entry is permanent or its maxAgeMs is 0, and
\* otherwise it is the clock reading of the set that wrote the entry plus
\* its maxAgeMs. Checked under SpecDeadline.
C26_DeadlineInvariant == []DeadlineInvariant /\ [][DeadlineWritten]_vars

\* The table holds a non-permanent entry of age 0 with the "never" deadline
\* and a non-permanent entry of age 2 written one tick ago, its deadline one
\* tick ahead.
C26_Witness ==
  /\ DOMAIN store = {"a", "b"}
  /\ ~store["a"].isPermanent /\ store["a"].maxAgeMs = 0
  /\ store["a"].expiresAt = TimePointMax
  /\ ~store["b"].isPermanent /\ store["b"].maxAgeMs = 2
  /\ store["b"].expiresAt = clock + 1

\* An erase of a pass removes one entry, which is non-permanent with a
\* positive age and a deadline at or before the clock reading of the pass,
\* the entry a get at that reading would have found expired, and leaves all
\* other entries as they were.
PassErases ==
  (ret'.op = "erase")
    => /\ worker.pc = "scan" /\ storeMutex = "worker"
       /\ DeadlinePassed(ret'.key.v, worker.now)
       /\ GetResult(store, ret'.key.v, worker.now) = JsUndefined
       /\ store' = Erase(store, ret'.key.v)

\* A pass ends only when no entry of the table is expired at its clock
\* reading: every entry left is one a get at that reading would have served.
PassEnds ==
  (worker.pc = "scan" /\ worker'.pc # "scan")
    => /\ store' = store
       /\ \A ks \in DOMAIN store :
            /\ ~DeadlinePassed(ks, worker.now)
            /\ GetResult(store, ks, worker.now) = store[ks].value

\* While a pass scans, the table changes only by the erases of the pass.
PassAlone ==
  (worker.pc = "scan" /\ store' # store) => ret'.op = "erase"

\* C27: a pass of the cleanup thread removes exactly the entries expired at
\* its clock reading: each entry it erases is non-permanent with maxAgeMs > 0
\* and a deadline at or before that reading, when it ends none such is left,
\* every other entry (permanent, of age 0, or not yet due) stays with its
\* value and timing unchanged, and the test is the one get and has apply.
\* Checked under SpecDeadline.
C27_SweepRemovesExpired == [][PassErases /\ PassEnds /\ PassAlone]_vars

\* A pass has just erased the expired entry under "a" and is still scanning,
\* while the entry under "b", non-permanent with a positive age and not yet
\* due at the pass's reading, is in the table.
C27_Witness ==
  /\ ret.op = "erase" /\ ret.key = JsString("a")
  /\ worker.pc = "scan"
  /\ DOMAIN store = {"b"}
  /\ ~store["b"].isPermanent /\ store["b"].maxAgeMs > 0
  /\ store["b"].expiresAt > worker.now

\* The cleanup thread holds the mutex all through its scan, and does not hold
\* it while blocked in its wait.
SweepHolds ==
  /\ (worker.pc = "scan") => storeMutex = "worker"
  /\ (worker.pc = "wait") => storeMutex # "worker"

\* While the scan is under way no call on the table returns (a call that
\* starts the task, which does not touch the table, may), none counts or
\* lists entries, and the only step a caller takes inside a call is the clock
\* reading that precedes the critical section of an enumeration.
SweepUnobserved ==
  (worker.pc = "scan")
    => /\ ret'.op \in {"none", "erase", "startCleanupTask"}
       /\ ~Counts
       /\ (store' # store) => ret'.op = "erase"
       /\ \A t \in Threads :
            (pc'[t] # pc[t])
              => pc[t] = "idle" /\ pc'[t] \in {"keys_scan", "all_count"}

\* Between passes the callers proceed: with the cleanup thread blocked in its
\* wait, a call that finds the mutex free is not held up by the thread.
SweepLetsThrough ==
  (worker.pc = "wait" /\ worker'.pc = "wait" /\ ret'.op \in ObserverOps)
    => storeMutex = "free" /\ storeMutex' = "free"

\* C28: the cleanup thread holds the mutex from the start of its scan to the
\* last erase of the pass, so that no call reads or changes the table while
\* it is half swept, and it does not hold the mutex while it is blocked in
\* its wait, where calls proceed. Checked under SpecClear.
C28_SweepLocking ==
  /\ []SweepHolds
  /\ [][SweepUnobserved /\ SweepLetsThrough]_vars

\* A pass has erased one expired entry and has another still to erase: the
\* table is half swept, with the mutex held by the cleanup thread.
C28_Witness ==
  /\ worker.pc = "scan"
  /\ ret.op = "erase" /\ ret.by = "cleanup"
  /\ ScanExpired(store, worker.now) # {}
  /\ storeMutex = "worker"

\* The steps that remove entries.
RemovalOps == {"delete", "clear", "get", "has", "erase"}

\* A step that takes entries out of the table is one removal path acting
\* under the mutex on entries that are in the table: a delete, a lazy
\* eviction or an erase of a pass removes exactly the one entry under its
\* key, a clear removes all that are there, and the entries not removed stay
\* as they were.
OneRemoval ==
  (DOMAIN store \ DOMAIN store' # {})
    => /\ ret'.op \in RemovalOps
       /\ ret'.erased
       /\ (ret'.op = "erase") => storeMutex = "worker"
       /\ (ret'.op # "erase") => storeMutex = "free"
       /\ (ret'.op # "clear")
            => DOMAIN store \ DOMAIN store' = {ret'.key.v}
       /\ \A ks \in DOMAIN store' : ks \in DOMAIN store /\ store'[ks] = store[ks]

\* A removal path that comes second finds the entry absent: a delete answers
\* true exactly when the entry was there and it erased it, false otherwise;
\* a get or a has of an absent key answers absent; and none of them, and no
\* pass, reports an erase without an entry leaving the table.
LoserFindsAbsent ==
  /\ (ret'.op = "delete")
       => /\ ret'.val = JsBoolean(ret'.key.v \in DOMAIN store)
          /\ ret'.erased <=> ret'.key.v \in DOMAIN store
  /\ (ret'.op \in {"get", "has"} /\ ret'.key.v \notin DOMAIN store)
       => /\ ret'.val = IF ret'.op = "get" THEN JsUndefined
                                           ELSE JsBoolean(FALSE)
          /\ ~ret'.erased
  /\ (ret'.op \in RemovalOps /\ ret'.erased)
       => DOMAIN store \ DOMAIN store' # {}

\* C29: each entry is removed by one removal path only, a delete, a clear, a
\* lazy eviction of get or has, or an erase of a cleanup pass, acting under
\* the mutex on an entry that is in the table; of two paths after the same
\* key one erases the entry and the other finds it absent (delete answers
\* false, get answers absent), in every interleaving. Checked under
\* SpecRemove.
C29_SingleRemoval == [][OneRemoval /\ LoserFindsAbsent]_vars

\* A get has evicted the expired entry under "a" while a cleanup pass that
\* read the same clock, and would have erased it, waits for the mutex.
C29_Witness ==
  /\ ret.op = "get" /\ ret.key = JsString("a") /\ ret.erased
  /\ "a" \notin DOMAIN store
  /\ worker.pc = "lock" /\ worker.now = clock

\* Where a thread is inside keys(), getKeys() or all().
EnumPcs ==
  {"keys_scan", "getkeys_count", "getkeys_fill", "all_count", "all_fill"}

\* C30: keys(), all(), getKeys() and size() leave the entry table as it is,
\* in each of their steps; an expired entry that keys() passes over is not in
\* the list it returns, is still in the table afterwards, and is counted by
\* size(). Checked under SpecEnum.
C30_EnumerationReadOnly ==
  [][/\ (ret'.op \in {"keys", "getKeys", "all", "size"}) => store' = store
     /\ \A t \in Threads :
          ((pc[t] \in EnumPcs \/ pc'[t] \in EnumPcs) /\ pc'[t] # pc[t])
            => store' = store
     /\ (ret'.op = "keys")
          => \A ks \in Unswept(locals[ret'.by].now) :
               /\ ks \in DOMAIN store'
               /\ \A i \in 1..Len(ret'.val.v) : ret'.val.v[i] # JsString(ks)
     /\ (ret'.op = "size")
          => \A ks \in Unswept(clock) :
               /\ ks \in DOMAIN store'
               /\ ret'.val # JsNumber(ToString(Cardinality(DOMAIN store
                                                        \ Unswept(clock))))]_vars

\* keys() has just returned a list shorter than the table: the entry under
\* "a", whose deadline has passed, is not in the list and is in the table.
C30_Witness ==
  /\ ret.op = "keys"
  /\ "a" \in Unswept(clock)
  /\ \A i \in 1..Len(ret.val.v) : ret.val.v[i] # JsString("a")
  /\ Len(ret.val.v) < Cardinality(DOMAIN store)

\* ------------------------------------------ claims on the task and the keys

\* The positions of the cleanup thread inside wait_for.
WaitPcs == {"wlock", "pred", "block", "wait"}

\* The order of the loop body: a thread is launched at the head of the loop;
\* from the head, with the flag clear, it goes to the clock reading of a scan,
\* whatever the time; the scan follows that reading; the wait is entered only
\* from the end of a scan, which leaves no entry expired at the reading; and
\* the head is reached again only from the wait.
LoopOrder ==
  /\ (worker.pc = "none" /\ worker'.pc # "none") => worker'.pc = "loop"
  /\ (worker.pc = "loop" /\ worker'.pc # "loop" /\ ~stopCleanup)
       => worker'.pc = "now"
  /\ (worker.pc # "now" /\ worker'.pc = "now") => worker.pc = "loop"
  /\ (worker.pc = "now" /\ worker'.pc # "now")
       => worker'.pc = "lock" /\ worker'.now = clock
  /\ (worker.pc # "scan" /\ worker'.pc = "scan") => worker.pc = "lock"
  /\ (worker.pc \notin WaitPcs /\ worker'.pc \in WaitPcs)
       => /\ worker.pc = "scan" /\ worker'.pc = "wlock"
          /\ \A ks \in DOMAIN store' : ~IsExpired(store'[ks], worker.now)
  /\ (worker.pc \notin {"none", "loop"} /\ worker'.pc = "loop")
       => worker.pc \in {"pred", "wait"}

\* Once the flag is set while a cleanup thread exists, it stays set until the
\* thread is gone; a wait that sees the flag returns to the head of the loop,
\* and the head, seeing it, ends the thread: no clock reading and no scan
\* follow.
StopEndsLoop ==
  /\ (stopCleanup /\ ~stopCleanup') => worker.pc = "none"
  /\ (stopCleanup /\ worker.pc = "pred" /\ worker'.pc # "pred")
       => worker'.pc = "loop"
  /\ (stopCleanup /\ worker.pc = "wait" /\ worker'.pc # "wait")
       => worker'.pc = "loop"
  /\ (stopCleanup /\ worker.pc = "loop" /\ worker'.pc # "loop")
       => worker'.pc = "exited"
  /\ (worker.pc = "exited") => worker'.pc \in {"exited", "none"}

\* C31: each iteration of the cleanup thread's loop makes one scan first and
\* then waits, so the first scan follows the launch with no wait before it
\* and leaves no entry that was expired when it read the clock; and once the
\* loop has seen the stop flag it makes no further scan before the thread
\* ends. Checked under Spec.
C31_SweepLoopOrder == [][LoopOrder /\ StopEndsLoop]_vars

\* The cleanup thread has just erased an entry, after the clock advanced, and
\* no interval was ever given: every wait so far had a deadline 60000 ticks
\* ahead, so the erase is in the first pass after a launch.
C31_Witness ==
  /\ ret.op = "erase" /\ ret.by = "cleanup"
  /\ worker.pc = "scan"
  /\ cleanupIntervalMs = DefaultCleanupIntervalMs
  /\ clock > 0

\* In every state: a caller outside a call finds the task stopped only with
\* no cleanup thread left, so that a start it makes then, with any argument,
\* can be taken and returns true; and a thread at the head of its loop with
\* the flag clear goes on to a scan.
RestartReady ==
  /\ (pc["t1"] = "idle" /\ stopCleanup)
       => /\ worker.pc = "none"
          /\ \A a \in StartArgs :
               ENABLED (StartCleanupTask("t1", a) /\ ret'.val = JsBoolean(TRUE))
  /\ (pc["t1"] = "idle" /\ ~stopCleanup)
       => /\ worker.pc \notin {"none", "exited"}
          /\ ENABLED StopCleanupTask("t1")
  /\ (worker.pc = "loop" /\ ~stopCleanup)
       => ENABLED (WorkerLoop /\ worker'.pc = "now")

\* In every step: a start made while the task is stopped returns true in the
\* step of the call, clears the flag, stores the interval it was given (the
\* intervals given are below 2^32) and launches a thread at the head of the
\* loop; a stop made while the task
\* runs returns true with the flag set and the thread gone; so starts and
\* stops made in turn all return true; and every wait of the thread is given
\* the interval stored when it begins.
Restarts ==
  /\ (ret'.op = "startCleanupTask" /\ stopCleanup)
       => /\ ret'.val = JsBoolean(TRUE)
          /\ pc[ret'.by] = "idle" /\ pc'[ret'.by] = "idle"
          /\ ~stopCleanup'
          /\ worker.pc = "none" /\ worker'.pc = "loop"
          /\ ret'.key.given
               => ret'.key.ms.hi = 0 /\ cleanupIntervalMs' = ret'.key.ms.lo
          /\ ~ret'.key.given => cleanupIntervalMs' = cleanupIntervalMs
  /\ (ret'.op = "startCleanupTask" /\ ~stopCleanup)
       => ret'.val = JsBoolean(FALSE)
  /\ \A t \in Threads :
       /\ pc'[t] # "start_join"
       /\ (pc[t] = "idle" /\ pc'[t] = "stop_notify") => ~stopCleanup
       /\ (pc[t] = "stop_join" /\ pc'[t] = "idle")
            => /\ ret'.op = "stopCleanupTask" /\ ret'.val = JsBoolean(TRUE)
               /\ stopCleanup' /\ worker'.pc = "none"
  /\ (ret'.op = "stopCleanupTask" /\ ret'.val = JsBoolean(FALSE)) => stopCleanup
  /\ (worker.pc = "wlock" /\ worker'.pc = "pred")
       => /\ worker'.interval = cleanupIntervalMs
          /\ worker'.deadline = clock + cleanupIntervalMs

\* C32: the cleanup task can be started again: in every reachable state a
\* startCleanupTask made while the task is stopped returns true, clears the
\* flag and launches a thread whose waits last the interval stored; starts
\* and stops made in turn all return true; and the thread launched by each
\* start begins with a scan. Checked under Spec.
C32_Restartable == []RestartReady /\ [][Restarts]_vars

\* A start with no argument has just returned true while the interval is 2:
\* an earlier start stored that interval, so the task has run, was stopped,
\* and runs again, with an expired entry in the table for its first scan.
C32_Witness ==
  /\ ret.op = "startCleanupTask" /\ ret.val = JsBoolean(TRUE)
  /\ ret.key = NoInterval
  /\ cleanupIntervalMs = 2
  /\ ~stopCleanup /\ worker.pc = "loop"
  /\ DeadlinePassed("a", clock)

\* In every state each mutable key made so far has its id in the side table,
\* and a caller outside a call that finds the mutex free, after a clear as at
\* any other time, can make a set through the key.
HandlesRegistered ==
  \A h \in DOMAIN handles :
    /\ handles[h].keyId.v \in DOMAIN keyWrappers
    /\ (pc["t1"] = "idle" /\ storeMutex = "free")
         => ENABLED Set("t1", JsProxy(h), JsNumber("1"), NoOptions)

\* In every step: no record leaves the side table and no mutable key is lost
\* or changes its id; only createMutableKey writes the side table, and only
\* it and an assignment to a key's value write the keys.
HandlesKept ==
  /\ DOMAIN keyWrappers \subseteq DOMAIN keyWrappers'
  /\ DOMAIN handles \subseteq DOMAIN handles'
  /\ \A h \in DOMAIN handles : handles'[h].keyId = handles[h].keyId
  /\ (ret'.op # "createMutableKey") => keyWrappers' = keyWrappers
  /\ (ret'.op \notin {"createMutableKey", "setValue"}) => handles' = handles

\* A clear empties the entry table and leaves the mutable keys, what each
\* resolves to, the flag, the interval and the cleanup thread as they were.
ClearKeepsHandles ==
  (ret'.op = "clear")
    => /\ store' = EmptyMap
       /\ UNCHANGED <<keyWrappers, handles, stopCleanup, cleanupIntervalMs,
                      worker>>
       /\ \A h \in DOMAIN handles :
            /\ KeyString(JsProxy(h))' = KeyString(JsProxy(h))
            /\ SetKeyString(JsProxy(h))' = SetKeyString(JsProxy(h))

\* A set through a mutable key stores its value where a get through the key,
\* made before the key is rebound and before the entry expires, finds it.
HandleSetThenGet ==
  \A h \in DOMAIN handles :
    (ret'.op = "set" /\ ret'.key = JsProxy(h))
      => /\ KeyString(JsProxy(h))' \in DOMAIN store'
         /\ ~IsExpired(store'[KeyString(JsProxy(h))'], clock')
         /\ GetResult(store', KeyString(JsProxy(h))', clock')
              \in Values

\* C33: no set, get, has, delete, clear, pass of the cleanup thread, start or
\* stop removes a record from the side table of the mutable keys or changes
\* a key's id; after a clear a key made before resolves to the same key
\* string as before and can be used to set and get again; and a clear leaves
\* the state of the cleanup task as it was. Checked under SpecKeep.
C33_HandlesNeverDropped ==
  /\ []HandlesRegistered
  /\ [][HandlesKept /\ ClearKeepsHandles /\ HandleSetThenGet]_vars

\* A clear has just emptied a table that held an entry stored through a
\* mutable key, while the task runs: the key and its record are still there.
C33_Witness ==
  /\ ret.op = "clear" /\ ret.erased
  /\ "h1" \in DOMAIN handles
  /\ handles["h1"].keyId.v \in DOMAIN keyWrappers
  /\ store = EmptyMap
  /\ ~stopCleanup /\ worker.pc \notin {"none", "exited"}

\* A get or a has of key k leaves every entry that stays in the table as it
\* was; it changes the table only by erasing the entry under k when that
\* entry's deadline has passed, and then it answers as for an absent key: the
\* deadline that counts is the one the last set of the entry gave it.
ReadsKeep ==
  \A k \in StringKeys :
    (ret'.op \in {"get", "has"} /\ ret'.key = k)
      => /\ DOMAIN store' \subseteq DOMAIN store
         /\ \A ks \in DOMAIN store' : store'[ks] = store[ks]
         /\ ~DeadlinePassed(k.v, clock) => store' = store /\ ~ret'.erased
         /\ Live(k.v, clock)
              => ret'.val = IF ret'.op = "get" THEN store[k.v].value
                                               ELSE JsBoolean(TRUE)
         /\ DeadlinePassed(k.v, clock)
              => /\ ret'.val = IF ret'.op = "get" THEN JsUndefined
                                                  ELSE JsBoolean(FALSE)
                 /\ store' = Erase(store, k.v)

\* The deadline of an entry that stays in the table changes only in the step
\* of a set that writes that entry.
OnlySetMovesDeadline ==
  \A ks \in DOMAIN store \cap DOMAIN store' :
    (store'[ks].expiresAt # store[ks].expiresAt)
      => ret'.op = "set" /\ StringIdentity(ret'.key) = ks

\* C34: a get or a has of an entry that is not expired leaves the whole table
\* unchanged, the entry's deadline included, so that an entry set with
\* maxAgeMs T is expired T after its last set however often it was read in
\* between. Checked under SpecConc.
C34_ReadsDoNotRefresh == [][ReadsKeep /\ OnlySetMovesDeadline]_vars

\* A get has just returned the value of an entry of age 2 one tick after the
\* set that wrote it, and the entry's deadline is still one tick ahead, two
\* ticks after the set.
C34_Witness ==
  /\ ret.op = "get" /\ ret.key = JsString("a") /\ ~ret.erased
  /\ "a" \in DOMAIN store
  /\ ret.val = store["a"].value
  /\ ~store["a"].isPermanent /\ store["a"].maxAgeMs = 2
  /\ store["a"].expiresAt = clock + 1

\* In every state: while the caller is outside a call the flag is clear
\* exactly when a cleanup thread exists, and that thread is then inside its
\* loop; while a stop is in progress the flag is set and the thread it is
\* about to join exists.
FlagAgrees ==
  /\ (pc["t1"] \in {"idle", "set_insert"})
       => /\ ~stopCleanup <=> Joinable
          /\ ~stopCleanup => worker.pc # "exited"
  /\ (pc["t1"] \in {"stop_notify", "stop_join"}) => stopCleanup /\ Joinable

\* In every step: a thread comes to exist only by a start that returns true,
\* made when the flag is set and no thread exists; a start that returns
\* false leaves the thread there is as it is; a thread begins its loop anew
\* only by returning from its own wait; and a thread ceases to exist only by
\* the join of a stop, after it has left its loop.
LaunchesOne ==
  /\ (~Joinable /\ Joinable')
       => /\ ret'.op = "startCleanupTask" /\ ret'.val = JsBoolean(TRUE)
          /\ stopCleanup /\ ~stopCleanup'
          /\ worker'.pc = "loop"
  /\ (ret'.op = "startCleanupTask" /\ ret'.val = JsBoolean(TRUE))
       => ~Joinable /\ Joinable'
  /\ (ret'.op = "startCleanupTask" /\ ret'.val = JsBoolean(FALSE))
       => Joinable /\ worker' = worker /\ UNCHANGED stopCleanup
  /\ (Joinable /\ worker.pc # "loop" /\ worker'.pc = "loop")
       => worker.pc \in {"pred", "wait"} /\ ret'.op = "none"
  /\ (Joinable /\ ~Joinable')
       => /\ worker.pc = "exited"
          /\ ret'.op = "stopCleanupTask" /\ ret'.val = JsBoolean(TRUE)

\* C35: in every reachable state at most one cleanup thread exists for the
\* store: a thread is launched only when none exists; and outside a start or
\* stop in progress the flag is clear exactly when a thread has been launched
\* and not yet joined. Checked under Spec.
C35_AtMostOneSweeper == []FlagAgrees /\ [][LaunchesOne]_vars

\* A start made while the task runs has just returned false: the thread that
\* was blocked in its wait is the only one, and the flag is clear.
C35_Witness ==
  /\ ret.op = "startCleanupTask" /\ ret.val = JsBoolean(FALSE)
  /\ worker.pc = "wait"
  /\ ~stopCleanup /\ pc["t1"] = "idle"

\* The entry under ks was set with the age n.
SetWithAge(map, ks, n) == ks \in DOMAIN map /\ map[ks].value = JsNumber(AgeText(n))

\* In every state an entry set with the age n = hi * 2^32 + lo is stored with
\* the age lo; with lo = 0 its deadline is "never", otherwise its deadline is
\* lo after a clock reading made no later than now.
AgeReduced ==
  \A ks \in DOMAIN store, n \in AgeInputs :
    SetWithAge(store, ks, n)
      => /\ ~store[ks].isPermanent
         /\ store[ks].maxAgeMs = n.lo
         /\ (n.lo = 0) => store[ks].expiresAt = TimePointMax
         /\ (n.lo > 0) => store[ks].expiresAt - n.lo \in 0..clock

\* In every step: a set with the age n gives the entry the deadline now + lo
\* (or "never" when lo = 0); an entry whose lo is 0 stays in the table and a
\* get of it returns its value; an entry whose lo is d > 0 is served before
\* its deadline and is answered as absent, and erased, from d after its set.
AgeExpires ==
  \A k \in StringKeys, n \in AgeInputs :
    /\ (ret'.op = "set" /\ ret'.key = k /\ ret'.val = JsBoolean(TRUE)
          /\ SetWithAge(store', k.v, n))
         => store'[k.v].expiresAt = IF n.lo = 0 THEN TimePointMax
                                               ELSE clock + n.lo
    /\ (SetWithAge(store, k.v, n) /\ n.lo = 0)
         => /\ k.v \in DOMAIN store'
            /\ (ret'.op = "get" /\ ret'.key = k) => ret'.val = store[k.v].value
            /\ (ret'.op = "has" /\ ret'.key = k) => ret'.val = JsBoolean(TRUE)
    /\ (SetWithAge(store, k.v, n) /\ n.lo > 0 /\ ret'.op = "get" /\ ret'.key = k)
         => ret'.val = IF clock >= store[k.v].expiresAt THEN JsUndefined
                                                        ELSE store[k.v].value
    /\ (SetWithAge(store, k.v, n) /\ k.v \notin DOMAIN store')
         => n.lo > 0 /\ store[k.v].expiresAt <= clock

\* C36: the age stored for an entry is the maxAgeMs the caller gave reduced
\* modulo 2^32: a non-permanent set whose maxAgeMs is a positive multiple of
\* 2^32 is stored with age 0 and never expires, and one whose maxAgeMs is
\* 2^32 + d expires d after the set. Checked under SpecAge.
C36_TtlModulo == []AgeReduced /\ [][AgeExpires]_vars

\* At the last clock reading a get has just returned the value of the entry
\* set with age 2^32, which is stored with age 0, while the entry set with
\* age 2^32 + 1 is stored with age 1 and is past its deadline.
C36_Witness ==
  /\ clock = MaxTime
  /\ ret.op = "get" /\ ret.key = JsString("a")
  /\ ret.val = JsNumber(AgeText(JsAge(1, 0)))
  /\ SetWithAge(store, "a", JsAge(1, 0)) /\ store["a"].maxAgeMs = 0
  /\ SetWithAge(store, "b", JsAge(1, 1)) /\ store["b"].maxAgeMs = 1
  /\ store["b"].expiresAt <= clock

\* The string __keyId a key object carries: for a plain object its own
\* property, for a mutable key the id its target was given at creation.
CarriedId(k) ==
  IF k.t = "proxy" THEN handles[k.v].keyId.v ELSE PlainGet(k.v, "__keyId").v

\* A set, get, has or delete with key object k acts on the slot of the id
\* that k carries.
IdResolves(k) ==
  /\ (ret'.op = "set" /\ ret'.key = k)
       => /\ CarriedId(k) \in DOMAIN store'
          /\ store'[CarriedId(k)].keyRef = k
          /\ \A ks \in DOMAIN store \ {CarriedId(k)} :
               ks \in DOMAIN store' /\ store'[ks] = store[ks]
  /\ (ret'.op = "get" /\ ret'.key = k)
       => ret'.val = GetResult(store, CarriedId(k), clock)
  /\ (ret'.op = "has" /\ ret'.key = k)
       => ret'.val = HasResult(store, CarriedId(k), clock)
  /\ (ret'.op = "delete" /\ ret'.key = k)
       => store' = Erase(store, CarriedId(k))

\* The plain objects that carry an id resolve to it, registered or not.
PlainIdResolves == \A k \in IdObjects : IdResolves(JsObject(k))

\* The mutable keys resolve to the id they carry.
HandleIdResolves == \A h \in DOMAIN handles : IdResolves(JsProxy(h))

\* A get with the string that spells a mutable key's id returns what a get
\* through the key would return.
StringSharesSlot ==
  \A h \in DOMAIN handles :
    (ret'.op = "get" /\ ret'.key = JsString(handles[h].keyId.v))
      => ret'.val = GetResult(store, KeyString(JsProxy(h)), clock)

\* C37 as stated: a key object that carries a string __keyId resolves to
\* exactly that string in set, get, has and delete, whether or not the id is
\* in the side table, and a string key equal to a mutable key's id addresses
\* the same entry as the key. Checked under SpecShare.
C37_SharedKeySpace ==
  [][PlainIdResolves /\ HandleIdResolves /\ StringSharesSlot]_vars

\* A set, get, has or delete whose key argument is k (null, undefined or "")
\* returns its normal result, not an error, and acts on the entry under the
\* empty string and on no other.
EmptyKeyAccepted(k) ==
  /\ KeyString(k) = "" /\ SetKeyString(k) = ""
  /\ (\E v \in Values, o \in EmptyOptions : Set("t1", k, v, o))
       => /\ ret'.val = JsBoolean(TRUE)
          /\ "" \in DOMAIN store' /\ store'[""].keyRef = k
          /\ \A ks \in DOMAIN store \ {""} :
               ks \in DOMAIN store' /\ store'[ks] = store[ks]
  /\ Get("t1", k) => ret'.val = GetResult(store, "", clock)
  /\ Has("t1", k) => ret'.val = HasResult(store, "", clock)
  /\ Delete("t1", k)
       => /\ ret'.val = JsBoolean("" \in DOMAIN store)
          /\ store' = Erase(store, "")

\* C38: set, get, has and delete called with a key argument that is null or
\* undefined are not rejected; both keys resolve to the empty string, so
\* that null, undefined and "" address one and the same entry. (A get with
\* no argument at all is rejected.) Checked under SpecEmpty.
C38_EmptyKeyAccepted ==
  [][/\ \A k \in EmptyKeys : EmptyKeyAccepted(k)
     /\ GetNoKey("t1") => ret'.val.t = "error" /\ store' = store]_vars

\* A get with the key null has just returned the value that a set with the
\* key undefined stored, and the entry is under the empty string.
C38_Witness ==
  /\ ret.op = "get" /\ ret.key = JsNull /\ ret.val \in Values
  /\ "" \in DOMAIN store
  /\ store[""].keyRef = JsUndefined
  /\ ret.val = store[""].value

====
